---- MODULE Spec2Model ----
(***************************************************************************)
(* NFL matchup analyzer: the statistical prediction engine of              *)
(* app_streamlit.py (team efficiency aggregator, season blender, edge      *)
(* evaluator) as a state machine.                                          *)
(*                                                                         *)
(* Numbers.  EPA values and points are floats in the program.  The model   *)
(* keeps them exact: a play's epa is an integer number of EPA units, and   *)
(* every derived quantity (a mean, a difference, a spread) is a reduced    *)
(* fraction [num, den] with den > 0, so that equality of two quantities is *)
(* equality of the records.                                                *)
(***************************************************************************)
EXTENDS Integers, Sequences, FiniteSets, Bags, TLC

VARIABLES
    pbp_data,      \* the play table of the Game Analysis tab (a bag of play rows)
    pc,            \* position of the current UI run
    sel,           \* the run's selection: home, away, CURRENT_WEEK, CURRENT_YEAR, show_season_trends
    home_stats,    \* get_team_recent_stats(home_abbr, ...) of the run
    away_stats,    \* get_team_recent_stats(away_abbr, ...) of the run
    matchup,       \* the Performance Matchup insight of the run
    team_stats,    \* get_all_team_stats(...) of the Power Rankings tab
    pred,          \* the simple model's prediction of the run
    std,           \* the standard model's prediction of the run
    view,          \* what the Model Analysis and Betting Value sections show
    model_pbp,     \* simple_model.pbp_data as loaded: the season of each row, in row order
    blend,         \* the season-weighted table of the run and how it was built
    np_random,     \* state of the process-wide numpy generator (what sample() draws from without random_state)
    earlier,       \* an earlier call of create_blended_model_data: its table, weight and result
    data_dir,      \* whether the directory data/ exists
    data_files,    \* data/pbp_<year>.parquet, per year: missing, unreadable, empty or with rows
    cached_data,   \* data_loader._cached_data: cache key -> table
    cache_timestamp, \* data_loader._cache_timestamp: cache key -> time.time() of the store
    now,           \* time.time(), in seconds
    loaded,        \* the last direct loader call: its key, what it returned and whether it read files
    movement,      \* the last line-movement lookup: the files it saw and its result
    session_state, \* st.session_state: key -> the play table stored under it
    analysis       \* the play table the current run analyses, and where it came from

callVars == <<np_random, earlier>>

loaderVars == <<data_dir, data_files, cached_data, cache_timestamp, now, loaded>>

sessionVars == <<session_state, analysis>>

vars == <<pbp_data, pc, sel, home_stats, away_stats, matchup, team_stats, pred, std, view,
          model_pbp, blend, callVars, loaderVars, movement, sessionVars>>

\* ------------------------------------------------------------------ bounds
MaxPlays == 3

\* model spreads range over -MaxSpread .. MaxSpread points
MaxSpread == 2

\* rows of the simple model's table
MaxModelPlays == 6

\* ------------------------------------------------------------- arithmetic
Abs(x) == IF x < 0 THEN -x ELSE x

RECURSIVE Gcd(_, _)
Gcd(a, b) == IF b = 0 THEN a ELSE Gcd(b, a % b)

\* the fraction n/d (d > 0) in lowest terms
Rat(n, d) ==
    LET g == Gcd(Abs(n), d)
    IN  [num |-> n \div g, den |-> d \div g]

RatInt(k) == [num |-> k, den |-> 1]
RatNeg(a) == [num |-> -a.num, den |-> a.den]
RatAdd(a, b) == Rat(a.num * b.den + b.num * a.den, a.den * b.den)
RatSub(a, b) == Rat(a.num * b.den - b.num * a.den, a.den * b.den)
RatScale(a, k) == Rat(a.num * k, a.den)
RatLess(a, b) == a.num * b.den < b.num * a.den
RatLeq(a, b) == a.num * b.den <= b.num * a.den
RatAbs(a) == [num |-> Abs(a.num), den |-> a.den]

\* Python's None
None == [none |-> TRUE]

\* -------------------------------------------------------------- play rows
Teams == {"A", "B", "C"}

\* (posteam, defteam) of the rows the model draws from
Matchups == {<<"A", "B">>, <<"B", "A">>, <<"C", "B">>}

\* (season, week) of the rows the model draws from
SeasonWeeks == {<<2024, 1>>, <<2025, 1>>, <<2025, 2>>}

EpaValues == {-1, 2}

\* a game is one pairing in one week of one season
PlayRows ==
    { [season |-> sw[1], week |-> sw[2], posteam |-> m[1], defteam |-> m[2],
       epa |-> e, game_id |-> <<sw[1], sw[2], {m[1], m[2]}>>] :
      sw \in SeasonWeeks, m \in Matchups, e \in EpaValues }

\* the rows keep of table B, with their multiplicities (a boolean-mask selection)
SelectRows(B, keep) == [r \in keep |-> B[r]]

Len0(B) == BagCardinality(B)

RECURSIVE SumEpa(_)
SumEpa(B) ==
    IF DOMAIN B = {} THEN 0
    ELSE LET r == CHOOSE x \in DOMAIN B : TRUE
         IN  r.epa * B[r] + SumEpa([x \in DOMAIN B \ {r} |-> B[x]])

\* Series.mean() of the epa column of a non-empty table
MeanEpa(B) == Rat(SumEpa(B), Len0(B))


\* ------------------------------------------------ team efficiency aggregator
\* the row filter of get_team_recent_stats / get_all_team_stats:
\* query season, weeks strictly before the query week, team on either side
InWindow_inclusive(r, team_abbr, week, year) ==
    /\ r.season = year
    /\ r.week <= week
    /\ (r.posteam = team_abbr \/ r.defteam = team_abbr)

InWindow(r, team_abbr, week, year) ==
    /\ r.season = year
    /\ r.week < week
    /\ (r.posteam = team_abbr \/ r.defteam = team_abbr)

InHistory_withcurrent(r, team_abbr) ==
    /\ r.season \in {2022, 2023, 2024, 2025}
    /\ (r.posteam = team_abbr \/ r.defteam = team_abbr)

\* the historical baseline filter (seasons 2022-2024, no week bound)
InHistory(r, team_abbr) ==
    /\ r.season \in {2022, 2023, 2024}
    /\ (r.posteam = team_abbr \/ r.defteam = team_abbr)

OffPlays_anyside(games, team_abbr) == games

OffPlays(games, team_abbr) ==
    SelectRows(games, {r \in DOMAIN games : r.posteam = team_abbr})

DefPlays(games, team_abbr) ==
    SelectRows(games, {r \in DOMAIN games : r.defteam = team_abbr})

\* x['epa'].mean() if len(x) > 0 else 0
AvgEpa(B) == IF Len0(B) > 0 THEN MeanEpa(B) ELSE RatInt(0)

GamesPlayed_rows(games) == Len0(games)

\* len(games.groupby(['game_id']))
GamesPlayed(games) == Cardinality({r.game_id : r \in DOMAIN games})

\* the display value of the defensive EPA: sign flipped
DisplayDefense_unflipped(current_avg_epa_def) == current_avg_epa_def

DisplayDefense(current_avg_epa_def) == RatNeg(current_avg_epa_def)

TrendStats(team_abbr, pbp, base_stats) ==
    LET historical_games ==
            SelectRows(pbp, {r \in DOMAIN pbp : InHistory(r, team_abbr)})
        hist_avg_epa_off == AvgEpa(OffPlays(historical_games, team_abbr))
        hist_avg_epa_def == AvgEpa(DefPlays(historical_games, team_abbr))
    IN  IF Len0(historical_games) > 0
        THEN [historical_offense |-> hist_avg_epa_off,
              historical_defense |-> RatNeg(hist_avg_epa_def),
              offense_trend |-> RatSub(base_stats.epa_offense, hist_avg_epa_off),
              defense_trend |-> RatSub(RatNeg(base_stats.epa_defense_raw),
                                       RatNeg(hist_avg_epa_def)),
              has_trends |-> TRUE] @@ base_stats
        ELSE [has_trends |-> FALSE] @@ base_stats

get_team_recent_stats(team_abbr, week, year, pbp, include_trends) ==
    LET current_season_games ==
            SelectRows(pbp, {r \in DOMAIN pbp : InWindow(r, team_abbr, week, year)})
        current_off_plays == OffPlays(current_season_games, team_abbr)
        current_def_plays == DefPlays(current_season_games, team_abbr)
        current_avg_epa_off == AvgEpa(current_off_plays)
        current_avg_epa_def == AvgEpa(current_def_plays)
        base_stats ==
            [games_played |-> GamesPlayed(current_season_games),
             epa_offense |-> current_avg_epa_off,
             epa_defense |-> DisplayDefense(current_avg_epa_def),
             epa_defense_raw |-> current_avg_epa_def,
             total_plays |-> Len0(current_off_plays) + Len0(current_def_plays)]
    IN  IF Len0(current_season_games) = 0 THEN None
        ELSE IF ~include_trends \/ year # 2025 THEN base_stats
        ELSE TrendStats(team_abbr, pbp, base_stats)

\* the teams named anywhere in the table
AllTeams(pbp) == {r.posteam : r \in DOMAIN pbp} \cup {r.defteam : r \in DOMAIN pbp}

get_all_team_stats(pbp, current_year, current_week, include_trends) ==
    LET games(team) ==
            SelectRows(pbp, {r \in DOMAIN pbp :
                                InWindow(r, team, current_week, current_year)})
        ranked == {team \in AllTeams(pbp) : Len0(games(team)) # 0}
        stats(team) ==
            LET off == AvgEpa(OffPlays(games(team), team))
                def == AvgEpa(DefPlays(games(team), team))
            IN  [team |-> team,
                 games_played |-> GamesPlayed(games(team)),
                 epa_offense |-> off,
                 epa_defense_raw |-> def,
                 epa_defense_display |-> RatNeg(def),
                 total_plays |-> Len0(OffPlays(games(team), team))
                                 + Len0(DefPlays(games(team), team)),
                 net_epa |-> RatSub(off, def)]
        trends(team) ==
            IF include_trends /\ current_year = 2025
            THEN LET t == TrendStats(team, pbp, stats(team))
                 IN  IF t.has_trends
                     THEN [offense_trend |-> t.offense_trend,
                           defense_trend |-> t.defense_trend,
                           has_trends |-> TRUE] @@ stats(team)
                     ELSE [has_trends |-> FALSE] @@ stats(team)
            ELSE [has_trends |-> FALSE] @@ stats(team)
    IN  [team \in ranked |-> trends(team)]

\* a usable snapshot: "if home_stats and home_stats['games_played'] > 0"
Usable(stats) == stats # None /\ stats.games_played > 0

\* Performance Matchup: the two advantages, from the raw defensive EPA
OffAdvantage_display(home, away) == RatSub(home.epa_offense, away.epa_defense)

OffAdvantage(home, away) == RatSub(home.epa_offense, away.epa_defense_raw)

DefAdvantage(home, away) == RatSub(away.epa_offense, home.epa_defense_raw)

PerformanceMatchup(home, away) ==
    IF Usable(home) /\ Usable(away)
    THEN [off_advantage |-> OffAdvantage(home, away),
          def_advantage |-> DefAdvantage(home, away)]
    ELSE None

\* --------------------------------------------------- spread predictor
\* The simple model (streamlit_simple_model) is not part of the sources; its
\* predict_spread is modelled from its specified contract.
scaling_constant == 25

home_field_advantage == 2

\* (home offense vs away defense) minus (away offense vs home defense)
EpaAdvantage(home, away) ==
    RatSub(RatSub(home.epa_offense, away.epa_defense_raw),
           RatSub(away.epa_offense, home.epa_defense_raw))

PredictedHomeSpread(epa_advantage) ==
    RatNeg(RatAdd(RatScale(epa_advantage, scaling_constant),
                  RatInt(home_field_advantage)))

predict_spread(home_team, away_team, week, season, plays) ==
    LET home == get_team_recent_stats(home_team, week, season, plays, FALSE)
        away == get_team_recent_stats(away_team, week, season, plays, FALSE)
    IN  IF home = None \/ away = None
        THEN [ok |-> FALSE, error |-> "insufficient data"]
        ELSE [ok |-> TRUE,
              spread |-> PredictedHomeSpread(EpaAdvantage(home, away)),
              details |-> [home_stats |-> home, away_stats |-> away,
                           epa_advantage |-> EpaAdvantage(home, away),
                           home_field_advantage |-> home_field_advantage]]

\* simple_edge = home_spread_vegas - simple_model_spread
SimpleEdge_added(home_spread_vegas, simple_model_spread) ==
    RatAdd(home_spread_vegas, simple_model_spread)

SimpleEdge(home_spread_vegas, simple_model_spread) ==
    RatSub(home_spread_vegas, simple_model_spread)

\* the simple-model part of the Model Predictions section: load_simple_model
\* (model is "raises" when it fails, "no_table" when the model holds no play
\* table, "table" otherwise), team validation against the table's
\* available_teams, then predict_spread (result p) and predict_total (result
\* t, None when it raises); calls lists the model's methods that were invoked;
\* a failure switches the simple model off for the run
SimpleModelSection_awayfirst(model, home_abbr, away_abbr, available_teams, p, t) ==
    IF model = "raises"
    THEN [status |-> "load_failed", show_simple_model |-> FALSE, calls |-> <<>>,
          simple_model_spread |-> None, simple_model_total |-> None]
    ELSE IF model = "no_table"
    THEN [status |-> "no_data", show_simple_model |-> FALSE, calls |-> <<>>,
          simple_model_spread |-> None, simple_model_total |-> None]
    ELSE IF away_abbr \notin available_teams
    THEN [status |-> "team_not_found", team |-> away_abbr, show_simple_model |-> FALSE,
          available_teams |-> available_teams, calls |-> <<>>,
          simple_model_spread |-> None, simple_model_total |-> None]
    ELSE IF home_abbr \notin available_teams
    THEN [status |-> "team_not_found", team |-> home_abbr, show_simple_model |-> FALSE,
          available_teams |-> available_teams, calls |-> <<>>,
          simple_model_spread |-> None, simple_model_total |-> None]
    ELSE IF ~p.ok
    THEN [status |-> "prediction_failed", show_simple_model |-> FALSE,
          available_teams |-> available_teams, calls |-> <<"predict_spread">>,
          simple_model_spread |-> None, simple_model_total |-> None]
    ELSE [status |-> "ok", show_simple_model |-> TRUE,
          available_teams |-> available_teams,
          calls |-> <<"predict_spread", "predict_total">>,
          simple_model_spread |-> p.spread,
          simple_model_details |-> p.details,
          simple_model_total |-> t]

SimpleModelSection(model, home_abbr, away_abbr, available_teams, p, t) ==
    IF model = "raises"
    THEN [status |-> "load_failed", show_simple_model |-> FALSE, calls |-> <<>>,
          simple_model_spread |-> None, simple_model_total |-> None]
    ELSE IF model = "no_table"
    THEN [status |-> "no_data", show_simple_model |-> FALSE, calls |-> <<>>,
          simple_model_spread |-> None, simple_model_total |-> None]
    ELSE IF home_abbr \notin available_teams
    THEN [status |-> "team_not_found", team |-> home_abbr, show_simple_model |-> FALSE,
          available_teams |-> available_teams, calls |-> <<>>,
          simple_model_spread |-> None, simple_model_total |-> None]
    ELSE IF away_abbr \notin available_teams
    THEN [status |-> "team_not_found", team |-> away_abbr, show_simple_model |-> FALSE,
          available_teams |-> available_teams, calls |-> <<>>,
          simple_model_spread |-> None, simple_model_total |-> None]
    ELSE IF ~p.ok
    THEN [status |-> "prediction_failed", show_simple_model |-> FALSE,
          available_teams |-> available_teams, calls |-> <<"predict_spread">>,
          simple_model_spread |-> None, simple_model_total |-> None]
    ELSE [status |-> "ok", show_simple_model |-> TRUE,
          available_teams |-> available_teams,
          calls |-> <<"predict_spread", "predict_total">>,
          simple_model_spread |-> p.spread,
          simple_model_details |-> p.details,
          simple_model_total |-> t]

\* ------------------------------------------- the Game Analysis run (SpecAgg)
\* (home, away) of the games on the schedule
Games == {<<"A", "B">>, <<"B", "A">>, <<"C", "B">>}

QueryWeeks == {2, 3}

Years == {2024, 2025}

\* home Vegas spreads the schedule offers
VegasSpreads == {RatInt(-3), RatInt(3)}

InitAgg ==
    /\ pbp_data = EmptyBag
    /\ pc = "idle"
    /\ sel = None
    /\ home_stats = None
    /\ away_stats = None
    /\ matchup = None
    /\ team_stats = None
    /\ pred = None
    /\ std = None
    /\ view = None
    /\ model_pbp = <<>>
    /\ blend = None
    /\ np_random = 7
    /\ earlier = None
    /\ data_dir = TRUE
    /\ data_files = [y \in 2021 .. 2025 |-> "missing"]
    /\ cached_data = <<>>
    /\ cache_timestamp = <<>>
    /\ now = 0
    /\ loaded = None
    /\ movement = None
    /\ session_state = <<>>
    /\ analysis = None

results == <<sel, home_stats, away_stats, matchup, team_stats, pred, std, view, model_pbp, blend>>

\* the data files gain, lose or change a play between two runs
AddPlay(r) ==
    /\ pc = "idle"
    /\ Len0(pbp_data) < MaxPlays
    /\ pbp_data' = pbp_data (+) SetToBag({r})
    /\ UNCHANGED <<pc, results>>
    /\ UNCHANGED <<callVars, loaderVars, movement, sessionVars>>

RemovePlay(r) ==
    /\ pc = "idle"
    /\ BagIn(r, pbp_data)
    /\ pbp_data' = pbp_data (-) SetToBag({r})
    /\ UNCHANGED <<pc, results>>
    /\ UNCHANGED <<callVars, loaderVars, movement, sessionVars>>

ChangePlay(r, r2) ==
    /\ pc = "idle"
    /\ BagIn(r, pbp_data)
    /\ r2 # r
    /\ pbp_data' = (pbp_data (-) SetToBag({r})) (+) SetToBag({r2})
    /\ UNCHANGED <<pc, results>>
    /\ UNCHANGED <<callVars, loaderVars, movement, sessionVars>>

\* Recent Team Performance: both snapshots and the matchup insight
TeamPerformance(g, week, year, trends) ==
    /\ pc = "idle"
    /\ pbp_data # EmptyBag
    /\ pc' = "dashboard"
    /\ sel' = [home |-> g[1], away |-> g[2], week |-> week, year |-> year,
               trends |-> trends]
    /\ home_stats' = get_team_recent_stats(g[1], week, year, pbp_data, trends)
    /\ away_stats' = get_team_recent_stats(g[2], week, year, pbp_data, trends)
    /\ matchup' = PerformanceMatchup(home_stats', away_stats')
    /\ UNCHANGED <<pbp_data, team_stats, pred, std, view, model_pbp, blend>>
    /\ UNCHANGED <<callVars, loaderVars, movement, sessionVars>>

\* Model Predictions: the simple model's spread and its edge
ModelPredictions(vegas) ==
    /\ pc = "dashboard"
    /\ pc' = "predicted"
    /\ LET m == SimpleModelSection("table", sel.home, sel.away, AllTeams(pbp_data),
                                   predict_spread(sel.home, sel.away, sel.week,
                                                  sel.year, pbp_data),
                                   None)
       IN  pred' = IF m.simple_model_spread # None
                   THEN [home_spread_vegas |-> vegas,
                         simple_edge |-> SimpleEdge(vegas, m.simple_model_spread)] @@ m
                   ELSE [home_spread_vegas |-> vegas] @@ m
    /\ UNCHANGED <<pbp_data, sel, home_stats, away_stats, matchup, team_stats, std, view, model_pbp, blend>>
    /\ UNCHANGED <<callVars, loaderVars, movement, sessionVars>>

\* Power Rankings tab
PowerRankings(week, year, trends) ==
    /\ pc = "idle"
    /\ pbp_data # EmptyBag
    /\ pc' = "rankings"
    /\ sel' = [week |-> week, year |-> year, trends |-> trends]
    /\ team_stats' = get_all_team_stats(pbp_data, year, week, trends)
    /\ UNCHANGED <<pbp_data, home_stats, away_stats, matchup, pred, std, view, model_pbp, blend>>
    /\ UNCHANGED <<callVars, loaderVars, movement, sessionVars>>

\* the script run ends; its locals are gone
EndRun ==
    /\ pc \in {"dashboard", "predicted", "rankings", "displayed", "blended", "weighted"}
    /\ pc' = "idle"
    /\ sel' = None
    /\ home_stats' = None
    /\ away_stats' = None
    /\ matchup' = None
    /\ team_stats' = None
    /\ pred' = None
    /\ std' = None
    /\ view' = None
    /\ blend' = None
    /\ UNCHANGED <<pbp_data, model_pbp>>
    /\ UNCHANGED <<callVars, loaderVars, movement, sessionVars>>

NextAgg ==
    \/ \E r \in PlayRows : AddPlay(r)
    \/ \E r \in PlayRows : RemovePlay(r)
    \/ \E r \in PlayRows, r2 \in PlayRows : ChangePlay(r, r2)
    \/ \E g \in Games, w \in QueryWeeks, y \in Years, t \in BOOLEAN :
          TeamPerformance(g, w, y, t)
    \/ \E v \in VegasSpreads : ModelPredictions(v)
    \/ \E w \in QueryWeeks, y \in Years, t \in BOOLEAN : PowerRankings(w, y, t)
    \/ EndRun

SpecAgg == InitAgg /\ [][NextAgg]_vars

\* ------------------------------------------------------ claims C1 - C4
\* the rows of the table that the query (team, week, year) is about
WindowOf(pbp, team, week, year) ==
    {r \in DOMAIN pbp : /\ r.season = year
                        /\ r.week < week
                        /\ team \in {r.posteam, r.defteam}}

\* number of rows of table pbp (with multiplicity) among the set rows
RECURSIVE CountRows(_, _)
CountRows(pbp, rows) ==
    IF rows = {} THEN 0
    ELSE LET r == CHOOSE x \in rows : TRUE
         IN  pbp[r] + CountRows(pbp, rows \ {r})

RECURSIVE TotalEpa(_, _)
TotalEpa(pbp, rows) ==
    IF rows = {} THEN 0
    ELSE LET r == CHOOSE x \in rows : TRUE
         IN  pbp[r] * r.epa + TotalEpa(pbp, rows \ {r})

\* q is the arithmetic mean of epa over rows (0 when there are none)
IsMeanOf(q, pbp, rows) ==
    IF rows = {} THEN q.num = 0
    ELSE q.num * CountRows(pbp, rows) = TotalEpa(pbp, rows) * q.den

SnapshotRight(stats, team) ==
    LET win == WindowOf(pbp_data, team, sel.week, sel.year)
    IN  /\ (stats = None) <=> (win = {})
        /\ stats # None => stats.total_plays = CountRows(pbp_data, win)

\* C1: a snapshot is computed from exactly the rows of the query season, of
\* the weeks strictly before the query week, with the team on offense or
\* defense; the result is None exactly when there is no such row.
C1_NoneIffEmptyWindow ==
    pc \in {"dashboard", "predicted"} =>
        /\ SnapshotRight(home_stats, sel.home)
        /\ SnapshotRight(away_stats, sel.away)

\* a team that is in the table only in weeks >= the query week got None
C1_Witness ==
    /\ pc = "dashboard"
    /\ home_stats = None
    /\ \E r \in DOMAIN pbp_data :
          /\ sel.home \in {r.posteam, r.defteam}
          /\ r.season = sel.year
          /\ r.week >= sel.week

OffenseMeanRight(stats, team, week, year) ==
    stats # None =>
        IsMeanOf(stats.epa_offense, pbp_data,
                 {r \in WindowOf(pbp_data, team, week, year) : r.posteam = team})

\* the rows whose multiplicity differs between two tables
ChangedRows(old, new) ==
    {r \in DOMAIN old \cup DOMAIN new : CopiesIn(r, old) # CopiesIn(r, new)}

C2_Mean ==
    /\ pc \in {"dashboard", "predicted"} =>
          /\ OffenseMeanRight(home_stats, sel.home, sel.week, sel.year)
          /\ OffenseMeanRight(away_stats, sel.away, sel.week, sel.year)
    /\ pc = "rankings" =>
          \A t \in DOMAIN team_stats :
              OffenseMeanRight(team_stats[t], t, sel.week, sel.year)

C2_Locality ==
    pbp_data' # pbp_data =>
        \A t \in Teams :
            (\A r \in ChangedRows(pbp_data, pbp_data') : t \notin {r.posteam, r.defteam})
            => \A w \in QueryWeeks, y \in Years, tr \in BOOLEAN :
                  get_team_recent_stats(t, w, y, pbp_data', tr)
                    = get_team_recent_stats(t, w, y, pbp_data, tr)

\* C2: epa_offense of a snapshot is the arithmetic mean of epa over exactly
\* the window rows with the team on offense (0 when there are none), and a
\* change of the table in rows that do not involve the team leaves the team's
\* snapshot unchanged.
C2_OffenseMeanAndLocality == [](C2_Mean) /\ [][C2_Locality]_vars

\* the home team has two offensive plays of different epa in the window,
\* next to a play that does not involve it
C2_Witness ==
    /\ pc = "dashboard"
    /\ home_stats # None
    /\ home_stats.epa_offense.den = 2
    /\ \E r \in DOMAIN pbp_data : sel.home \notin {r.posteam, r.defteam}

\* the exact mean of epa over rows (0 when there are none)
ExactMean(pbp, rows) ==
    IF rows = {} THEN RatInt(0)
    ELSE Rat(TotalEpa(pbp, rows), CountRows(pbp, rows))

RawOffense(team) ==
    ExactMean(pbp_data, {r \in WindowOf(pbp_data, team, sel.week, sel.year) :
                            r.posteam = team})

RawDefense(team) ==
    ExactMean(pbp_data, {r \in WindowOf(pbp_data, team, sel.week, sel.year) :
                            r.defteam = team})

Negations(stats) ==
    stats # None =>
        /\ stats.epa_defense.num = -stats.epa_defense_raw.num
        /\ stats.epa_defense.den = stats.epa_defense_raw.den

\* C3: the matchup advantage uses the raw defensive EPA: offensive advantage
\* = home offense - away raw defense, defensive term = away offense - home
\* raw defense, epa_advantage = the first minus the second; the display value
\* epa_defense is the exact negation of epa_defense_raw in every snapshot.
C3_RawDefenseOnly ==
    /\ pc \in {"dashboard", "predicted"} =>
          /\ Negations(home_stats)
          /\ Negations(away_stats)
          /\ matchup # None =>
                /\ matchup.off_advantage
                     = RatSub(RawOffense(sel.home), RawDefense(sel.away))
                /\ matchup.def_advantage
                     = RatSub(RawOffense(sel.away), RawDefense(sel.home))
    /\ (pc = "predicted" /\ pred.status = "ok") =>
          pred.simple_model_details.epa_advantage
            = RatSub(RatSub(RawOffense(sel.home), RawDefense(sel.away)),
                     RatSub(RawOffense(sel.away), RawDefense(sel.home)))

\* a matchup whose away defense has a non-zero raw EPA, predicted
C3_Witness ==
    /\ pc = "predicted"
    /\ pred.status = "ok"
    /\ matchup # None
    /\ away_stats.epa_defense_raw.num # 0
    /\ home_stats.epa_defense_raw.num # 0

\* C4: predicted_home_spread = -(epa_advantage * scaling_constant +
\* home_field_advantage); when home offense strictly dominates away defense
\* and away offense strictly trails home defense the spread is negative, and
\* the app's edge is the home Vegas spread minus this spread.
C4_SpreadSign ==
    (pc = "predicted" /\ pred.status = "ok") =>
        LET h == pred.simple_model_details.home_stats
            a == pred.simple_model_details.away_stats
            adv == pred.simple_model_details.epa_advantage
            spread == pred.simple_model_spread
        IN  /\ spread.num * adv.den
                 = -(adv.num * scaling_constant + home_field_advantage * adv.den)
                   * spread.den
            /\ (RatLess(a.epa_defense_raw, h.epa_offense)
                  /\ RatLess(a.epa_offense, h.epa_defense_raw))
               => /\ RatLess(RatInt(0), adv)
                  /\ spread.num < 0
            /\ RatAdd(pred.simple_edge, spread) = pred.home_spread_vegas

\* a home team that dominates on both sides, predicted
C4_Witness ==
    /\ pc = "predicted"
    /\ pred.status = "ok"
    /\ RatLess(pred.simple_model_details.away_stats.epa_defense_raw,
               pred.simple_model_details.home_stats.epa_offense)
    /\ RatLess(pred.simple_model_details.away_stats.epa_offense,
               pred.simple_model_details.home_stats.epa_defense_raw)
    /\ pred.simple_model_spread.num < 0

\* ------------------------------------- the Model Predictions run (SpecEdge)
\* the Vegas line taken from spread_line as it is
VegasLine_raw(spread_line, home_moneyline) ==
    [home |-> spread_line, away |-> RatNeg(spread_line)]

\* home and away Vegas spread from the schedule's spread_line and moneyline
VegasLine(spread_line, home_moneyline) ==
    LET spread_magnitude == RatAbs(spread_line)
    IN  IF home_moneyline < 0
        THEN [home |-> RatNeg(spread_magnitude), away |-> spread_magnitude]
        ELSE IF home_moneyline > 0
        THEN [home |-> spread_magnitude, away |-> RatNeg(spread_magnitude)]
        ELSE [home |-> spread_line, away |-> RatNeg(spread_line)]

\* Python truthiness of an optional number: None and 0 are false
Truthy(x) == x # None /\ x.num # 0

\* the standard model: its own prediction, or the fallback when it raises
StandardModelSection(show_standard_model, outcome, simple_model_spread) ==
    IF ~show_standard_model THEN [model_home_spread |-> None, failed |-> FALSE]
    ELSE IF outcome.ok THEN [model_home_spread |-> outcome.spread, failed |-> FALSE]
    ELSE [model_home_spread |-> IF Truthy(simple_model_spread)
                                THEN RatAdd(simple_model_spread, Rat(1, 2))
                                ELSE RatInt(0),
          failed |-> TRUE]

\* total_edge = simple_model_total - total_line
TotalEdge_market(simple_model_total, total_line) ==
    RatSub(total_line, simple_model_total)

TotalEdge(simple_model_total, total_line) ==
    RatSub(simple_model_total, total_line)

\* pick = first if edge > 0 else second
Pick_tiefirst(edge, first, second) ==
    IF RatLeq(RatInt(0), edge) THEN first ELSE second

Pick(edge, first, second) ==
    IF RatLess(RatInt(0), edge) THEN first ELSE second

\* the decoration of a metric's pick
EdgeIcon(edge) ==
    IF RatLeq(RatInt(3), RatAbs(edge)) THEN "fire"
    ELSE IF RatLeq(RatInt(1), RatAbs(edge)) THEN "bulb"
    ELSE "plain"

\* the recommendation banner
RecStrength_at3(edge) ==
    IF RatLeq(RatInt(2), RatAbs(edge))
    THEN IF RatLeq(RatInt(3), RatAbs(edge)) THEN "STRONG" ELSE "MODERATE"
    ELSE "NONE"

RecStrength(edge) ==
    IF RatLeq(RatInt(2), RatAbs(edge))
    THEN IF RatLeq(RatInt(4), RatAbs(edge)) THEN "STRONG" ELSE "MODERATE"
    ELSE "NONE"

\* the Betting Value assessment of an edge
ValueLabel(edge) ==
    IF RatLeq(RatInt(2), RatAbs(edge))
    THEN IF RatLeq(RatInt(3), RatAbs(edge)) THEN "High" ELSE "Medium"
    ELSE IF RatLeq(RatInt(1), RatAbs(edge)) THEN "Slight Edge"
    ELSE "No Clear Value"

\* the Predictions tab
PredictionsTab(home_abbr, away_abbr, home_spread_vegas, total_line, show_standard_model, simple_model_spread, simple_model_total, model_home_spread) ==
    LET hasStandard == show_standard_model /\ model_home_spread # None
        standard_edge == RatSub(home_spread_vegas, model_home_spread)
        simple_edge == SimpleEdge(home_spread_vegas, simple_model_spread)
        hasTotal == simple_model_total # None
        total_edge == IF hasTotal THEN TotalEdge(simple_model_total, total_line)
                      ELSE RatInt(0)
    IN  [standard_edge |-> IF hasStandard THEN standard_edge ELSE None,
         standard_pick |-> IF hasStandard THEN Pick(standard_edge, home_abbr, away_abbr)
                           ELSE "N/A",
         standard_icon |-> IF hasStandard THEN EdgeIcon(standard_edge) ELSE "N/A",
         simple_edge |-> simple_edge,
         simple_pick |-> Pick(simple_edge, home_abbr, away_abbr),
         simple_icon |-> EdgeIcon(simple_edge),
         total_edge |-> total_edge,
         total_pick |-> IF hasTotal THEN Pick(total_edge, "OVER", "UNDER") ELSE "N/A",
         total_icon |-> IF hasTotal THEN EdgeIcon(total_edge) ELSE "N/A",
         rec_strength |-> RecStrength(simple_edge),
         total_rec_strength |-> IF hasTotal THEN RecStrength(total_edge) ELSE "NONE"]

\* the Betting Value Assessment and the Overall Assessment
BettingValue(home_abbr, away_abbr, home_spread_vegas, total_line, show_standard_model, simple_model_spread, simple_model_total, model_home_spread) ==
    LET simple_edge == IF Truthy(simple_model_spread)
                       THEN RatSub(home_spread_vegas, simple_model_spread)
                       ELSE RatInt(0)
        standard_edge == IF Truthy(model_home_spread)
                         THEN RatSub(home_spread_vegas, model_home_spread)
                         ELSE RatInt(0)
        hasTotal == Truthy(simple_model_total) /\ Truthy(total_line)
        total_edge == IF hasTotal THEN RatSub(simple_model_total, total_line)
                      ELSE RatInt(0)
        hasStandard == show_standard_model /\ model_home_spread # None
        strong(e) == RatLeq(RatInt(2), RatAbs(e))
    IN  [bv_simple_edge |-> simple_edge,
         bv_standard_edge |-> standard_edge,
         bv_total_edge |-> total_edge,
         spread_value |-> ValueLabel(simple_edge),
         spread_best_bet |-> IF RatLeq(RatInt(1), RatAbs(simple_edge))
                             THEN Pick(simple_edge, home_abbr, away_abbr) ELSE "N/A",
         standard_value |-> IF hasStandard THEN ValueLabel(standard_edge) ELSE "N/A",
         total_value |-> IF hasTotal THEN ValueLabel(total_edge) ELSE "N/A",
         strong_edges |->
             (IF strong(simple_edge)
              THEN <<<<"Spread", Pick(simple_edge, home_abbr, away_abbr)>>>> ELSE <<>>)
             \o (IF show_standard_model /\ Truthy(model_home_spread) /\ strong(standard_edge)
                 THEN <<<<"Advanced", Pick(standard_edge, home_abbr, away_abbr)>>>> ELSE <<>>)
             \o (IF hasTotal /\ strong(total_edge)
                 THEN <<<<"Total", Pick(total_edge, "OVER", "UNDER")>>>> ELSE <<>>)]

\* Display Results showing the standard model on its own when it has a spread
Display_standardalone(home_abbr, away_abbr, home_spread_vegas, total_line, show_standard_model, show_simple_model, simple_model_spread, simple_model_total, model_home_spread) ==
    IF show_simple_model /\ simple_model_spread # None
    THEN [shown |-> TRUE]
         @@ PredictionsTab(home_abbr, away_abbr, home_spread_vegas, total_line,
                           show_standard_model, simple_model_spread,
                           simple_model_total, model_home_spread)
         @@ BettingValue(home_abbr, away_abbr, home_spread_vegas, total_line,
                         show_standard_model, simple_model_spread,
                         simple_model_total, model_home_spread)
    ELSE IF show_standard_model /\ model_home_spread # None
    THEN [shown |-> TRUE,
          standard_edge |-> RatSub(home_spread_vegas, model_home_spread),
          total_edge |-> RatInt(0), total_pick |-> "N/A"]
    ELSE [shown |-> FALSE, warning |-> "No model predictions available",
          total_edge |-> RatInt(0), total_pick |-> "N/A"]

\* Display Results and the Betting Value Calculator
Display(home_abbr, away_abbr, home_spread_vegas, total_line, show_standard_model, show_simple_model, simple_model_spread, simple_model_total, model_home_spread) ==
    IF show_simple_model /\ simple_model_spread # None
    THEN [shown |-> TRUE]
         @@ PredictionsTab(home_abbr, away_abbr, home_spread_vegas, total_line,
                           show_standard_model, simple_model_spread,
                           simple_model_total, model_home_spread)
         @@ BettingValue(home_abbr, away_abbr, home_spread_vegas, total_line,
                         show_standard_model, simple_model_spread,
                         simple_model_total, model_home_spread)
    ELSE [shown |-> FALSE, warning |-> "No model predictions available",
          total_edge |-> RatInt(0), total_pick |-> "N/A"]

\* what the schedule row of the selected game may hold
SpreadLines == {RatInt(-3), RatInt(0), RatInt(1)}

Moneylines == {-150, 0, 130}

TotalLines == {RatInt(0), RatInt(44)}

\* what the models may return
ModelSpreads == {RatInt(k) : k \in -MaxSpread .. MaxSpread}

ModelTotals == {RatInt(41), RatInt(44), RatInt(46), RatInt(48)}

SpreadOutcomes ==
    {[ok |-> FALSE]}
    \cup {[ok |-> TRUE, spread |-> x, details |-> [home_field_advantage |-> home_field_advantage]] :
            x \in ModelSpreads}

\* Betting Odds banner: the game's Vegas line, and the sidebar's model switches
BettingOdds(g, spread_line, home_moneyline, total_line, show_standard, show_simple) ==
    /\ pc = "idle"
    /\ pc' = "odds"
    /\ sel' = [home |-> g[1], away |-> g[2],
               spread_line |-> spread_line, home_moneyline |-> home_moneyline,
               home_spread_vegas |-> VegasLine(spread_line, home_moneyline).home,
               away_spread_vegas |-> VegasLine(spread_line, home_moneyline).away,
               total_line |-> total_line,
               show_standard_model |-> show_standard,
               show_simple_model |-> show_simple]
    /\ UNCHANGED <<pbp_data, home_stats, away_stats, matchup, team_stats, pred, std, view, model_pbp, blend>>
    /\ UNCHANGED <<callVars, loaderVars, movement, sessionVars>>

\* the ways load_simple_model can end
ModelLoads == {"raises", "no_table", "table"}

\* Load Simple Model: load_simple_model ends as model says, the model's table
\* names available_teams, predict_spread returns p and predict_total returns t
\* (None when it raises)
LoadSimpleModel(model, available_teams, p, t) ==
    /\ pc = "odds"
    /\ pc' = "simple"
    /\ pred' = IF sel.show_simple_model
               THEN SimpleModelSection(model, sel.home, sel.away, available_teams, p, t)
               ELSE [status |-> "off", show_simple_model |-> FALSE, calls |-> <<>>,
                     simple_model_spread |-> None, simple_model_total |-> None]
    /\ UNCHANGED <<pbp_data, sel, home_stats, away_stats, matchup, team_stats, std, view, model_pbp, blend>>
    /\ UNCHANGED <<callVars, loaderVars, movement, sessionVars>>

\* Load Standard Model: predict_spread_standard returns outcome
LoadStandardModel(outcome) ==
    /\ pc = "simple"
    /\ pc' = "standard"
    /\ std' = StandardModelSection(sel.show_standard_model, outcome,
                                   pred.simple_model_spread)
    /\ UNCHANGED <<pbp_data, sel, home_stats, away_stats, matchup, team_stats, pred, view, model_pbp, blend>>
    /\ UNCHANGED <<callVars, loaderVars, movement, sessionVars>>

DisplayResults ==
    /\ pc = "standard"
    /\ pc' = "displayed"
    /\ view' = Display(sel.home, sel.away, sel.home_spread_vegas, sel.total_line,
                       sel.show_standard_model, pred.show_simple_model,
                       pred.simple_model_spread, pred.simple_model_total,
                       std.model_home_spread)
    /\ UNCHANGED <<pbp_data, sel, home_stats, away_stats, matchup, team_stats, pred, std, model_pbp, blend>>
    /\ UNCHANGED <<callVars, loaderVars, movement, sessionVars>>

NextEdge ==
    \/ \E g \in Games, sl \in SpreadLines, ml \in Moneylines, tl \in TotalLines,
          s1 \in BOOLEAN, s2 \in BOOLEAN : BettingOdds(g, sl, ml, tl, s1, s2)
    \/ \E m \in ModelLoads, av \in SUBSET Teams, p \in SpreadOutcomes, t \in ModelTotals \cup {None} :
          LoadSimpleModel(m, av, p, t)
    \/ \E o \in SpreadOutcomes : LoadStandardModel(o)
    \/ DisplayResults
    \/ EndRun

SpecEdge == InitAgg /\ [][NextEdge]_vars

\* ------------------------------------------------------ claims C5 - C7
Shown == pc = "displayed" /\ view.shown

\* |e| >= k and |e| < k for a fraction e and an integer k
AtLeast(e, k) == Abs(e.num) >= k * e.den

Below(e, k) == Abs(e.num) < k * e.den

Tier42(e) ==
    IF AtLeast(e, 4) THEN "STRONG" ELSE IF AtLeast(e, 2) THEN "MODERATE" ELSE "NONE"

\* the tier that a Betting Value label stands for
TierOfLabel(label) ==
    IF label = "High" THEN "STRONG"
    ELSE IF label = "Medium" THEN "MODERATE"
    ELSE "NONE"

\* the claim as stated: every strength label follows the breakpoints 4 and 2
C6_SameBreakpointsEverywhere ==
    Shown =>
        /\ view.rec_strength = Tier42(view.simple_edge)
        /\ pred.simple_model_total # None =>
              view.total_rec_strength = Tier42(view.total_edge)
        /\ TierOfLabel(view.spread_value) = Tier42(view.bv_simple_edge)
        /\ view.standard_value # "N/A" =>
              TierOfLabel(view.standard_value) = Tier42(view.bv_standard_edge)
        /\ view.total_value # "N/A" =>
              TierOfLabel(view.total_value) = Tier42(view.bv_total_edge)

BettingValueLabelRight(label, e) ==
    /\ label = "High" <=> AtLeast(e, 3)
    /\ label = "Medium" <=> (AtLeast(e, 2) /\ Below(e, 3))
    /\ label = "Slight Edge" <=> (AtLeast(e, 1) /\ Below(e, 2))
    /\ label = "No Clear Value" <=> Below(e, 1)

\* C6 (amended): the recommendation banners (spread and total) are STRONG for
\* |edge| >= 4, MODERATE for 2 <= |edge| < 4 and absent for |edge| < 2, so a
\* market value equal to the prediction gives edge 0 and no recommendation;
\* the Betting Value assessment has its own breakpoints: High for |edge| >= 3,
\* Medium for 2 <= |edge| < 3, Slight Edge for 1 <= |edge| < 2, No Clear
\* Value below 1.
C6_TierBreakpoints ==
    Shown =>
        /\ view.rec_strength = Tier42(view.simple_edge)
        /\ pred.simple_model_total # None =>
              view.total_rec_strength = Tier42(view.total_edge)
        /\ pred.simple_model_total = None => view.total_rec_strength = "NONE"
        /\ sel.home_spread_vegas = pred.simple_model_spread =>
              /\ view.simple_edge = RatInt(0)
              /\ view.rec_strength = "NONE"
              /\ view.spread_value = "No Clear Value"
        /\ pred.simple_model_total = sel.total_line =>
              /\ view.total_edge = RatInt(0)
              /\ view.total_rec_strength = "NONE"
        /\ BettingValueLabelRight(view.spread_value, view.bv_simple_edge)
        /\ view.standard_value # "N/A" =>
              BettingValueLabelRight(view.standard_value, view.bv_standard_edge)
        /\ view.total_value # "N/A" =>
              BettingValueLabelRight(view.total_value, view.bv_total_edge)

\* an edge of 3 points: a MODERATE banner next to a High betting value
C6_Witness ==
    /\ Shown
    /\ AtLeast(view.simple_edge, 3)
    /\ Below(view.simple_edge, 4)
    /\ view.rec_strength = "MODERATE"
    /\ view.spread_value = "High"

PickRight(pick, e, first, second) ==
    /\ pick \in {first, second}
    /\ pick = first <=> e.num > 0
    /\ pick = second <=> e.num <= 0

\* C7: the pick is the first label (home team, OVER) exactly when the edge is
\* positive, and the second label (away team, UNDER) for every edge <= 0,
\* a tie included; an edge never comes without a pick.
C7_PickBySign ==
    Shown =>
        /\ PickRight(view.simple_pick, view.simple_edge, sel.home, sel.away)
        /\ view.standard_edge # None =>
              PickRight(view.standard_pick, view.standard_edge, sel.home, sel.away)
        /\ pred.simple_model_total # None =>
              PickRight(view.total_pick, view.total_edge, "OVER", "UNDER")

\* a tie on the spread and on the total
C7_Witness ==
    /\ Shown
    /\ view.simple_edge = RatInt(0)
    /\ view.simple_pick = sel.away
    /\ pred.simple_model_total # None
    /\ view.total_edge = RatInt(0)
    /\ view.total_pick = "UNDER"

\* ------------------------------------------------- season blender (SpecBlend)
\* A table derived from simple_model.pbp_data is the sequence of the positions
\* of its rows in model_pbp; the blender reads no column but season.
\* load_simple_model loads the seasons 2022-2024 and, when it has plays, 2025
ModelSeasons == {2022, 2024, 2025}

HistoricalSeasons_short == {2022, 2023}

HistoricalSeasons == {2022, 2023, 2024}

\* pbp_data[pbp_data['season'].isin(seasons)], in row order
RowsOfSeasons(tbl, seasons) ==
    LET inSeasons(i) == tbl[i] \in seasons
    IN  SelectSeq([i \in 1 .. Len(tbl) |-> i], inSeasons)

\* the slider's weights, in tenths: 0.0, 0.1, ..., 1.0
Weights10 == 0 .. 10

\* int(n * w) for the weight w = w10 / 10
IntTimes_rounded(n, w10) ==
    LET q == (n * w10) \div 10
        r == (n * w10) % 10
    IN  IF r > 5 \/ (r = 5 /\ q % 2 = 1) THEN q + 1 ELSE q

IntTimes(n, w10) == (n * w10) \div 10

\* int(n * (1 - w)): in double arithmetic 1 - 0.8 and 1 - 0.9 lie just below
\* 0.2 and 0.1, and a product that should be a whole number falls short of it
\* (tables of fewer than 90 rows)
IntTimesComplement(n, w10) ==
    LET exact == (n * (10 - w10)) \div 10
        short == w10 \in {8, 9} /\ (n * (10 - w10)) % 10 = 0
    IN  IF short THEN exact - 1 ELSE exact

\* the generator behind random_state=42
NextRandom(x) == (x * 75 + 74) % 65537

RECURSIVE Shuffle(_, _, _)
Shuffle(perm, i, x) ==
    IF i < 2 THEN perm
    ELSE LET j == 1 + (NextRandom(x) % i)
             swapped == [perm EXCEPT ![i] = perm[j], ![j] = perm[i]]
         IN  Shuffle(swapped, i - 1, NextRandom(x))

\* RandomState(42).permutation(n)
Permutation(n) == Shuffle([i \in 1 .. n |-> i], n, 42)

\* frame.sample(n=k) without random_state: drawn from the process-wide generator
Sample_global(frame, k) ==
    LET n == Len(frame)
    IN  [i \in 1 .. k |-> frame[Shuffle([j \in 1 .. n |-> j], n, np_random)[i]]]

\* frame.sample(n=k, random_state=42): k rows, without replacement
Sample(frame, k) == [i \in 1 .. k |-> frame[Permutation(Len(frame))[i]]]

\* pd.concat([frame] * times)
RECURSIVE Replicate(_, _)
Replicate(frame, times) ==
    IF times = 0 THEN <<>> ELSE frame \o Replicate(frame, times - 1)

\* which return of create_blended_model_data is taken
Branch_weightfirst(historical_data, current_data, w10) ==
    IF w10 = 0 THEN "weight_0"
    ELSE IF w10 = 10 THEN "weight_1"
    ELSE IF Len(current_data) = 0 THEN "no_current"
    ELSE IF Len(historical_data) = 0 THEN "no_historical"
    ELSE "blend"

Branch(historical_data, current_data, w10) ==
    IF Len(current_data) = 0 THEN "no_current"
    ELSE IF Len(historical_data) = 0 THEN "no_historical"
    ELSE IF w10 = 0 THEN "weight_0"
    ELSE IF w10 = 10 THEN "weight_1"
    ELSE "blend"

CurrentSample_noremainder(current_data, target_current_plays) ==
    IF target_current_plays > Len(current_data)
    THEN Replicate(current_data, target_current_plays \div Len(current_data))
    ELSE Sample(current_data, target_current_plays)

CurrentSample(current_data, target_current_plays) ==
    IF target_current_plays > Len(current_data)
    THEN LET replication_factor == target_current_plays \div Len(current_data)
             remainder == target_current_plays % Len(current_data)
             current_replicated == Replicate(current_data, replication_factor)
         IN  IF remainder > 0
             THEN current_replicated \o Sample(current_data, remainder)
             ELSE current_replicated
    ELSE Sample(current_data, target_current_plays)

\* the historical part as the whole historical table
HistoricalSample_all(historical_data, target_historical_plays) == historical_data

HistoricalSample(historical_data, target_historical_plays) ==
    IF target_historical_plays > Len(historical_data)
    THEN historical_data
    ELSE Sample(historical_data, target_historical_plays)

create_blended_model_data(tbl, w10) ==
    LET historical_data == RowsOfSeasons(tbl, HistoricalSeasons)
        current_data == RowsOfSeasons(tbl, {2025})
        branch == Branch(historical_data, current_data, w10)
        target_total_size == Len(historical_data)
        target_current_plays == IntTimes(target_total_size, w10)
        target_historical_plays == IntTimesComplement(target_total_size, w10)
    IN  IF branch \in {"no_current", "weight_0"}
        THEN [branch |-> branch, rows |-> historical_data]
        ELSE IF branch \in {"no_historical", "weight_1"}
        THEN [branch |-> branch, rows |-> current_data]
        ELSE [branch |-> branch,
              target_current_plays |-> target_current_plays,
              target_historical_plays |-> target_historical_plays,
              rows |-> HistoricalSample(historical_data, target_historical_plays)
                       \o CurrentSample(current_data, target_current_plays)]

\* len(frame[frame['season'].isin(seasons)])
CountSeasons(tbl, frame, seasons) ==
    Cardinality({i \in 1 .. Len(frame) : tbl[frame[i]] \in seasons})

\* the call site with the blend applied at every weight when trends are on
SeasonWeighting_always(tbl, show_season_trends, w10) ==
    LET current_season_weight == IF show_season_trends THEN w10 ELSE 0
        blended == create_blended_model_data(tbl, current_season_weight)
        new_2025 == CountSeasons(tbl, blended.rows, {2025})
        new_hist == CountSeasons(tbl, blended.rows, HistoricalSeasons)
    IN  IF show_season_trends
        THEN [applied |-> TRUE, show_season_trends |-> show_season_trends,
              weight |-> current_season_weight,
              new_2025 |-> new_2025, new_hist |-> new_hist,
              actual_weight |-> IF new_2025 + new_hist > 0
                                THEN Rat(new_2025, new_2025 + new_hist)
                                ELSE RatInt(0)] @@ blended
        ELSE [applied |-> FALSE, show_season_trends |-> show_season_trends,
              weight |-> current_season_weight,
              rows |-> [i \in 1 .. Len(tbl) |-> i]]

\* the call site: the blend is applied when trends are on and the weight is not 0.5
SeasonWeighting(tbl, show_season_trends, w10) ==
    LET current_season_weight == IF show_season_trends THEN w10 ELSE 0
        blended == create_blended_model_data(tbl, current_season_weight)
        new_2025 == CountSeasons(tbl, blended.rows, {2025})
        new_hist == CountSeasons(tbl, blended.rows, HistoricalSeasons)
    IN  IF show_season_trends /\ current_season_weight # 5
        THEN [applied |-> TRUE, show_season_trends |-> show_season_trends,
              weight |-> current_season_weight,
              new_2025 |-> new_2025, new_hist |-> new_hist,
              actual_weight |-> IF new_2025 + new_hist > 0
                                THEN Rat(new_2025, new_2025 + new_hist)
                                ELSE RatInt(0)] @@ blended
        ELSE [applied |-> FALSE, show_season_trends |-> show_season_trends,
              weight |-> current_season_weight,
              rows |-> [i \in 1 .. Len(tbl) |-> i]]

\* the data files of the simple model gain a play
AppendModelPlay(season) ==
    /\ pc = "idle"
    /\ Len(model_pbp) < MaxModelPlays
    /\ model_pbp' = Append(model_pbp, season)
    /\ UNCHANGED <<pbp_data, pc, sel, home_stats, away_stats, matchup, team_stats,
                   pred, std, view, blend>>
    /\ earlier' = None
    /\ UNCHANGED <<np_random, loaderVars, movement, sessionVars>>

\* create_blended_model_data applied to the model's table
CreateBlend(w10) ==
    /\ pc = "idle"
    /\ pc' = "blended"
    /\ blend' = [weight |-> w10] @@ create_blended_model_data(model_pbp, w10)
    /\ UNCHANGED <<pbp_data, sel, home_stats, away_stats, matchup, team_stats,
                   pred, std, view, model_pbp>>
    /\ UNCHANGED <<callVars, loaderVars, movement, sessionVars>>

\* Load Simple Model: season weighting of the model's table
ApplySeasonWeighting(show_season_trends, w10) ==
    /\ pc = "idle"
    /\ pc' = "weighted"
    /\ blend' = SeasonWeighting(model_pbp, show_season_trends, w10)
    /\ UNCHANGED <<pbp_data, sel, home_stats, away_stats, matchup, team_stats,
                   pred, std, view, model_pbp>>
    /\ UNCHANGED <<callVars, loaderVars, movement, sessionVars>>

NextBlend ==
    \/ \E s \in ModelSeasons : AppendModelPlay(s)
    \/ \E w \in Weights10 : CreateBlend(w)
    \/ \E t \in BOOLEAN, w \in Weights10 : ApplySeasonWeighting(t, w)
    \/ EndRun

SpecBlend == InitAgg /\ [][NextBlend]_vars

\* ------------------------------------------- calls of the blender (SpecCalls)
\* states the process-wide generator is seeded with when the server starts
Entropy == {7, 19}

\* the server process restarts: a fresh generator state, module globals gone
Restart ==
    /\ pc = "idle"
    /\ np_random' \in Entropy
    /\ cached_data' = <<>>
    /\ cache_timestamp' = <<>>
    /\ loaded' = None
    /\ session_state' = <<>>
    /\ analysis' = None
    /\ UNCHANGED <<pbp_data, pc, sel, home_stats, away_stats, matchup, team_stats,
                   pred, std, view, model_pbp, blend, earlier, data_dir, data_files,
                   now, movement>>

\* the caller keeps what create_blended_model_data returned for a later comparison
Remember ==
    /\ pc = "blended"
    /\ earlier' = [tbl |-> model_pbp, weight |-> blend.weight, rows |-> blend.rows,
                   np_random |-> np_random]
    /\ UNCHANGED <<pbp_data, pc, sel, home_stats, away_stats, matchup, team_stats,
                   pred, std, view, model_pbp, blend, np_random, loaderVars, movement, sessionVars>>

NextCalls ==
    \/ \E s \in ModelSeasons : AppendModelPlay(s)
    \/ \E w \in Weights10 : CreateBlend(w)
    \/ Remember
    \/ Restart
    \/ EndRun

SpecCalls == InitAgg /\ [][NextCalls]_vars

\* ----------------------------------------------------- claims C8 - C10
\* the positions of the rows of the model's table with a season in seasons
PositionsOf(seasons) == {i \in 1 .. Len(model_pbp) : model_pbp[i] \in seasons}

\* the table rows holds every position of the set exactly once, nothing else
IsExactly(rows, positions) ==
    /\ Len(rows) = Cardinality(positions)
    /\ \A i \in positions : \E k \in 1 .. Len(rows) : rows[k] = i

Blended == pc = "blended"

\* the claim as stated: weight 0.0 gives the historical subset and weight 1.0
\* the current subset, for every input table
C8_WeightEndsAlways ==
    Blended =>
        /\ blend.weight = 0 => IsExactly(blend.rows, PositionsOf({2022, 2023, 2024}))
        /\ blend.weight = 10 => IsExactly(blend.rows, PositionsOf({2025}))

\* C8 (amended): weight 0.0 returns exactly the historical subset (seasons
\* 2022-2024) and weight 1.0 exactly the current subset (season 2025), as
\* multisets of rows, unless the subset the weight selects is empty while the
\* other one is not: then the other subset is returned.
C8_WeightEnds ==
    Blended =>
        LET hist == PositionsOf({2022, 2023, 2024})
            cur == PositionsOf({2025})
        IN  /\ blend.weight = 0 =>
                  IF hist = {} /\ cur # {} THEN IsExactly(blend.rows, cur)
                  ELSE IsExactly(blend.rows, hist)
            /\ blend.weight = 10 =>
                  IF cur = {} /\ hist # {} THEN IsExactly(blend.rows, hist)
                  ELSE IsExactly(blend.rows, cur)

\* both subsets non-empty, two historical seasons: weight 1.0 gave the current rows
C8_Witness ==
    /\ Blended
    /\ blend.weight = 10
    /\ PositionsOf({2022, 2023, 2024}) # {}
    /\ PositionsOf({2025}) # {}
    /\ PositionsOf({2022}) # {}
    /\ PositionsOf({2024}) # {}
    /\ IsExactly(blend.rows, PositionsOf({2025}))

\* the positions of a set, in increasing order
RECURSIVE InOrder(_)
InOrder(positions) ==
    IF positions = {} THEN <<>>
    ELSE LET m == CHOOSE x \in positions : \A y \in positions : x <= y
         IN  <<m>> \o InOrder(positions \ {m})

\* C9: when exactly one of the historical and the current subset is empty,
\* the non-empty one is returned unchanged for every weight, and nothing is
\* sampled (no target size is computed).
C9_DegenerateIsPassThrough ==
    Blended =>
        LET hist == PositionsOf({2022, 2023, 2024})
            cur == PositionsOf({2025})
        IN  /\ (hist = {} /\ cur # {}) =>
                  /\ blend.rows = InOrder(cur)
                  /\ blend.branch = "no_historical"
            /\ (cur = {} /\ hist # {}) =>
                  /\ blend.rows = InOrder(hist)
                  /\ blend.branch = "no_current"

\* weight 1.0 on a table without current rows, weight 0.0 is covered by the other
C9_Witness ==
    /\ Blended
    /\ blend.weight = 10
    /\ PositionsOf({2025}) = {}
    /\ Cardinality(PositionsOf({2022, 2023, 2024})) >= 2
    /\ blend.rows = InOrder(PositionsOf({2022, 2023, 2024}))

\* x, in tenths, rounded to the nearest integer (ties to even, as round() does)
RoundTenths(x10) ==
    LET q == x10 \div 10
        r == x10 % 10
    IN  IF r > 5 \/ (r = 5 /\ q % 2 = 1) THEN q + 1 ELSE q

Sampling == Blended /\ blend.branch = "blend"

\* the claim as stated: the target sizes are rounded to nearest
C10_TargetsRounded ==
    Sampling =>
        LET n == Cardinality(PositionsOf({2022, 2023, 2024}))
        IN  /\ blend.target_current_plays = RoundTenths(n * blend.weight)
            /\ blend.target_historical_plays = RoundTenths(n * (10 - blend.weight))

\* C10 (amended): for 0 < weight < 1 with both subsets non-empty the target
\* sizes are int(|historical| * weight) and int(|historical| * (1 - weight)):
\* truncated, not rounded.  Each is the floor of the exact product, or one
\* less when the exact product is a whole number that the floating-point
\* product falls just short of; it is never above the exact product.
C10_TargetsTruncated ==
    Sampling =>
        LET n == Cardinality(PositionsOf({2022, 2023, 2024}))
            tc == blend.target_current_plays
            th == blend.target_historical_plays
        IN  /\ blend.weight \in 1 .. 9
            /\ 10 * tc <= n * blend.weight
            /\ n * blend.weight <= 10 * tc + 10
            /\ (n * blend.weight) % 10 # 0 => tc = (n * blend.weight) \div 10
            /\ 10 * th <= n * (10 - blend.weight)
            /\ n * (10 - blend.weight) <= 10 * th + 10
            /\ (n * (10 - blend.weight)) % 10 # 0 => th = (n * (10 - blend.weight)) \div 10
            /\ tc >= 0
            /\ th >= 0

\* three historical rows at weight 0.6: 1.8 and 1.2 give the targets 1 and 1
C10_Witness ==
    /\ Sampling
    /\ Cardinality(PositionsOf({2022, 2023, 2024})) = 3
    /\ blend.weight = 6
    /\ blend.target_current_plays = 1
    /\ blend.target_historical_plays = 1

\* ---------------------------------------------------- claims C11 - C13
\* how many times the row at position i occurs in rows
Occurrences(rows, i) == Cardinality({k \in 1 .. Len(rows) : rows[k] = i})

\* C11: in a blend, the current part (the rows of season 2025) has exactly
\* target_current rows.  When target_current > |current| every current row
\* occurs q or q + 1 times, q = floor(target_current / |current|), and exactly
\* (target_current mod |current|) rows occur q + 1 times; otherwise no row
\* occurs more than once.
C11_CurrentPartComposition ==
    Sampling =>
        LET cur == PositionsOf({2025})
            n == Cardinality(cur)
            tc == blend.target_current_plays
            q == tc \div n
            part == {k \in 1 .. Len(blend.rows) : blend.rows[k] \in cur}
        IN  /\ Cardinality(part) = tc
            /\ tc > n =>
                  /\ \A i \in cur : Occurrences(blend.rows, i) \in {q, q + 1}
                  /\ Cardinality({i \in cur : Occurrences(blend.rows, i) = q + 1}) = tc % n
            /\ tc <= n => \A i \in cur : Occurrences(blend.rows, i) <= 1

\* two current rows up-sampled to three: one full copy and a sample of one
C11_Witness ==
    /\ Sampling
    /\ Cardinality(PositionsOf({2025})) = 2
    /\ blend.target_current_plays = 3
    /\ \E i \in PositionsOf({2025}) : Occurrences(blend.rows, i) = 2
    /\ \E i \in PositionsOf({2025}) : Occurrences(blend.rows, i) = 1

\* the same call as the remembered one: same table, same weight
SameCall ==
    /\ Blended
    /\ earlier # None
    /\ earlier.tbl = model_pbp
    /\ earlier.weight = blend.weight

C12_SameRows ==
    SameCall =>
        \A i \in 1 .. Len(model_pbp) : Occurrences(blend.rows, i) = Occurrences(earlier.rows, i)

C12_InputUntouched == pc' = "blended" => model_pbp' = model_pbp

Unhonourable ==
    LET hist == PositionsOf({2022, 2023, 2024})
        cur == PositionsOf({2025})
    IN  \/ cur = {} /\ hist # {} /\ blend.weight # 0
        \/ hist = {} /\ cur # {} /\ blend.weight # 10

\* C13: whenever the requested weight cannot be honoured because one subset is
\* empty, the season weighting reports the achieved weight next to the
\* requested one, for every requested weight, the skipped blend at 0.5 included.
C13_DegenerationReported ==
    (pc = "weighted" /\ blend.show_season_trends /\ Unhonourable) =>
        /\ "actual_weight" \in DOMAIN blend
        /\ blend.actual_weight = (IF PositionsOf({2025}) = {} THEN RatInt(0) ELSE RatInt(1))

\* ------------------------------------------------ data loader (SpecLoad)
\* the clock advances by TickSeconds, at most MaxTicks times
MaxTicks == 4

TickSeconds == 100

\* the cache's time to live, in seconds
CacheSeconds == 300

\* a table is the sequence of the seasons whose rows it holds, in load order
EmptyTable == <<>>

\* the seasons whose data files change, and what a data file may be
FileYears == {2024, 2025}

FileStates == {"missing", "unreadable", "empty", "rows"}

\* the calls the application makes
RollingYears == {2025}

SeasonYears == {2025}

\* os.path.exists(os.path.join("data", f"pbp_{year}.parquet"))
FileExists(year) == data_dir /\ data_files[year] # "missing"

\* pd.read_parquet(file_path): the file's table, or an exception
ReadParquet(year) ==
    IF data_files[year] = "unreadable" THEN [raised |-> TRUE]
    ELSE [raised |-> FALSE,
          table |-> IF data_files[year] = "rows" THEN <<year>> ELSE EmptyTable]

\* the cache entry of the key is still fresh
Fresh_inclusive(cache_key) ==
    /\ cache_key \in DOMAIN cached_data
    /\ cache_key \in DOMAIN cache_timestamp
    /\ now - cache_timestamp[cache_key] <= CacheSeconds

Fresh(cache_key) ==
    /\ cache_key \in DOMAIN cached_data
    /\ cache_key \in DOMAIN cache_timestamp
    /\ now - cache_timestamp[cache_key] < CacheSeconds

\* the outcomes of a loader call
CacheHit(cache_key) ==
    [key |-> cache_key, raised |-> FALSE, result |-> cached_data[cache_key],
     from_cache |-> TRUE, years_read |-> {}, store |-> FALSE]

ReturnEmpty(cache_key, years_read) ==
    [key |-> cache_key, raised |-> FALSE, result |-> EmptyTable,
     from_cache |-> FALSE, years_read |-> years_read, store |-> FALSE]

ReturnStored(cache_key, table, years_read) ==
    [key |-> cache_key, raised |-> FALSE, result |-> table,
     from_cache |-> FALSE, years_read |-> years_read, store |-> TRUE]

Propagate(cache_key, years_read) ==
    [key |-> cache_key, raised |-> TRUE, result |-> EmptyTable,
     from_cache |-> FALSE, years_read |-> years_read, store |-> FALSE]

\* pd.concat(pbp_dfs) over the files that exist and can be read, in load order
RECURSIVE Combine(_)
Combine(years) ==
    IF years = <<>> THEN EmptyTable
    ELSE IF FileExists(Head(years)) /\ ~ReadParquet(Head(years)).raised
         THEN ReadParquet(Head(years)).table \o Combine(Tail(years))
         ELSE Combine(Tail(years))

\* load_rolling_data without the check of the combined table
load_rolling_data_novalidation(current_year, fails) ==
    LET cache_key == <<"rolling_data", current_year>>
        years == [i \in 1 .. 4 |-> current_year - (i - 1)]
        tried == {y \in {years[i] : i \in 1 .. 4} : FileExists(y)}
        pbp_dfs == {y \in tried : ~ReadParquet(y).raised}
        combined_df == Combine(years)
    IN  IF Fresh(cache_key) THEN CacheHit(cache_key)
        ELSE IF ~data_dir THEN ReturnEmpty(cache_key, {})
        ELSE IF pbp_dfs = {} THEN ReturnEmpty(cache_key, tried)
        ELSE IF fails THEN ReturnEmpty(cache_key, tried)
        ELSE ReturnStored(cache_key, combined_df, tried)

\* load_rolling_data(current_year); fails: an unexpected error while combining
load_rolling_data(current_year, fails) ==
    LET cache_key == <<"rolling_data", current_year>>
        years == [i \in 1 .. 4 |-> current_year - (i - 1)]
        tried == {y \in {years[i] : i \in 1 .. 4} : FileExists(y)}
        pbp_dfs == {y \in tried : ~ReadParquet(y).raised}
        combined_df == Combine(years)
    IN  IF Fresh(cache_key) THEN CacheHit(cache_key)
        ELSE IF ~data_dir THEN ReturnEmpty(cache_key, {})
        ELSE IF pbp_dfs = {} THEN ReturnEmpty(cache_key, tried)
        ELSE IF fails THEN ReturnEmpty(cache_key, tried)
        ELSE IF combined_df = EmptyTable THEN ReturnEmpty(cache_key, tried)
        ELSE ReturnStored(cache_key, combined_df, tried)

\* load_full_season_pbp without its try/except
load_full_season_pbp_notry(year) ==
    LET cache_key == <<"season_data", year>>
    IN  IF Fresh(cache_key) THEN CacheHit(cache_key)
        ELSE IF ~FileExists(year) THEN ReturnEmpty(cache_key, {})
        ELSE IF ReadParquet(year).raised THEN Propagate(cache_key, {year})
        ELSE ReturnStored(cache_key, ReadParquet(year).table, {year})

\* load_full_season_pbp(year)
load_full_season_pbp(year) ==
    LET cache_key == <<"season_data", year>>
    IN  IF Fresh(cache_key) THEN CacheHit(cache_key)
        ELSE IF ~FileExists(year) THEN ReturnEmpty(cache_key, {})
        ELSE IF ReadParquet(year).raised THEN ReturnEmpty(cache_key, {year})
        ELSE ReturnStored(cache_key, ReadParquet(year).table, {year})

\* a call of load_rolling_data: what it returns, and the cache after it
LoadRollingData(current_year, fails) ==
    LET call == load_rolling_data(current_year, fails)
    IN  /\ loaded' = [at |-> now, error |-> fails,
                      entry_age |-> IF call.key \in DOMAIN cache_timestamp
                                    THEN now - cache_timestamp[call.key] ELSE -1,
                      key |-> call.key, raised |-> call.raised, result |-> call.result,
                      from_cache |-> call.from_cache, years_read |-> call.years_read,
                      store |-> call.store]
        /\ cached_data' = IF call.store THEN (call.key :> call.result) @@ cached_data
                          ELSE cached_data
        /\ cache_timestamp' = IF call.store THEN (call.key :> now) @@ cache_timestamp
                              ELSE cache_timestamp
        /\ UNCHANGED <<pbp_data, pc, sel, home_stats, away_stats, matchup, team_stats,
                       pred, std, view, model_pbp, blend, callVars, data_dir, data_files,
                       now, movement, sessionVars>>

\* a call of load_full_season_pbp: what it returns, and the cache after it
LoadFullSeasonPbp(year) ==
    LET call == load_full_season_pbp(year)
    IN  /\ loaded' = [at |-> now, error |-> FALSE,
                      entry_age |-> IF call.key \in DOMAIN cache_timestamp
                                    THEN now - cache_timestamp[call.key] ELSE -1,
                      key |-> call.key, raised |-> call.raised, result |-> call.result,
                      from_cache |-> call.from_cache, years_read |-> call.years_read,
                      store |-> call.store]
        /\ cached_data' = IF call.store THEN (call.key :> call.result) @@ cached_data
                          ELSE cached_data
        /\ cache_timestamp' = IF call.store THEN (call.key :> now) @@ cache_timestamp
                              ELSE cache_timestamp
        /\ UNCHANGED <<pbp_data, pc, sel, home_stats, away_stats, matchup, team_stats,
                       pred, std, view, model_pbp, blend, callVars, data_dir, data_files,
                       now, movement, sessionVars>>

\* time passes
Tick ==
    /\ now + TickSeconds <= MaxTicks * TickSeconds
    /\ now' = now + TickSeconds
    /\ UNCHANGED <<pbp_data, pc, sel, home_stats, away_stats, matchup, team_stats,
                   pred, std, view, model_pbp, blend, callVars, data_dir, data_files,
                   cached_data, cache_timestamp, loaded, movement, sessionVars>>

\* a data file is written, emptied, damaged or removed
SetFile(year, state) ==
    /\ data_files[year] # state
    /\ data_files' = [data_files EXCEPT ![year] = state]
    /\ UNCHANGED <<pbp_data, pc, sel, home_stats, away_stats, matchup, team_stats,
                   pred, std, view, model_pbp, blend, callVars, data_dir,
                   cached_data, cache_timestamp, now, loaded, movement, sessionVars>>

\* the directory data/ is removed or restored
SetDataDir(exists) ==
    /\ data_dir # exists
    /\ data_dir' = exists
    /\ UNCHANGED <<pbp_data, pc, sel, home_stats, away_stats, matchup, team_stats,
                   pred, std, view, model_pbp, blend, callVars, data_files,
                   cached_data, cache_timestamp, now, loaded, movement, sessionVars>>

NextLoad ==
    \/ \E y \in RollingYears, fails \in BOOLEAN : LoadRollingData(y, fails)
    \/ \E y \in SeasonYears : LoadFullSeasonPbp(y)
    \/ Tick
    \/ \E y \in FileYears, s \in FileStates : SetFile(y, s)
    \/ \E e \in BOOLEAN : SetDataDir(e)
    \/ Restart

SpecLoad == InitAgg /\ [][NextLoad]_vars

\* ---------------------------------------------------- claims C14 - C17
\* the team code appears somewhere in the play table
TeamInTable(t) == \E r \in DOMAIN pbp_data : t \in {r.posteam, r.defteam}

\* a known team with no qualifying play for the run's query
InsufficientData(t) == TeamInTable(t) /\ WindowOf(pbp_data, t, sel.week, sel.year) = {}

\* C14: the snapshot outcome for a team code that is nowhere in the play table
\* (UnknownTeam) differs from the outcome for a known team with no qualifying
\* play (InsufficientData), and is never a snapshot of zeros.
C14_UnknownTeamDistinct ==
    pc = "dashboard" =>
        /\ (~TeamInTable(sel.home) /\ InsufficientData(sel.away)) => home_stats # away_stats
        /\ (~TeamInTable(sel.away) /\ InsufficientData(sel.home)) => away_stats # home_stats
        /\ ~TeamInTable(sel.home) => "total_plays" \notin DOMAIN home_stats
        /\ ~TeamInTable(sel.away) => "total_plays" \notin DOMAIN away_stats

\* C15: when a model produces no prediction, no default number stands in for
\* it: after a standard-model failure the standard spread stays absent, and no
\* edge, pick or strong-edge entry is derived from a value never predicted.
C15_NoSubstitutedPrediction ==
    /\ (pc \in {"standard", "displayed"} /\ std.failed) => std.model_home_spread = None
    /\ (pc = "displayed" /\ std.failed /\ view.shown) =>
          /\ view.standard_edge = None
          /\ view.standard_pick = "N/A"
          /\ \A k \in 1 .. Len(view.strong_edges) : view.strong_edges[k][1] # "Advanced"

\* the team's rows of the baseline seasons, whatever their week
HistoryOf(pbp, team) ==
    {r \in DOMAIN pbp : r.season \in {2022, 2023, 2024} /\ team \in {r.posteam, r.defteam}}

HasTrends(stats) == "has_trends" \in DOMAIN stats /\ stats.has_trends

TrendsRight(stats, team) ==
    stats # None =>
        LET hist == HistoryOf(pbp_data, team)
            asked == sel.trends /\ sel.year = 2025
            hist_off == ExactMean(pbp_data, {r \in hist : r.posteam = team})
            hist_def == ExactMean(pbp_data, {r \in hist : r.defteam = team})
        IN  /\ HasTrends(stats) <=> (asked /\ hist # {})
            /\ HasTrends(stats) =>
                  /\ stats.offense_trend = RatSub(RawOffense(team), hist_off)
                  /\ stats.defense_trend = RatSub(RatNeg(RawDefense(team)), RatNeg(hist_def))
            /\ ~HasTrends(stats) =>
                  /\ "offense_trend" \notin DOMAIN stats
                  /\ "defense_trend" \notin DOMAIN stats
            /\ (asked /\ hist = {}) =>
                  /\ "has_trends" \in DOMAIN stats
                  /\ stats.has_trends = FALSE

\* C16: a snapshot carries trend values (has_trends true, offense_trend =
\* current offense - historical offense, defense_trend = (-current defense) -
\* (-historical defense)) only if trends were requested, the query season is
\* 2025 and the team has a row in seasons 2022-2024 of any week; a requested
\* trend for a team without historical rows is marked has_trends = false and
\* the snapshot carries no trend values.
C16_TrendsOnlyWithBaseline ==
    /\ pc \in {"dashboard", "predicted"} =>
          /\ TrendsRight(home_stats, sel.home)
          /\ TrendsRight(away_stats, sel.away)
    /\ pc = "rankings" =>
          \A t \in DOMAIN team_stats : TrendsRight(team_stats[t], t)

\* a snapshot with a non-zero offensive trend, and one marked without trends
C16_Witness ==
    /\ pc = "dashboard"
    /\ home_stats # None
    /\ HasTrends(home_stats)
    /\ home_stats.offense_trend.num # 0
    /\ away_stats # None
    /\ "has_trends" \in DOMAIN away_stats
    /\ ~away_stats.has_trends

GamesPlayedRight(stats, team) ==
    stats # None =>
        stats.games_played
          = Cardinality({r.game_id : r \in WindowOf(pbp_data, team, sel.week, sel.year)})

\* C17: games_played of a snapshot is the number of distinct game_id values
\* among the team's rows of the query season and of weeks before the query
\* week, on offense or defense, however many plays a game contributes.
C17_GamesPlayedDistinct ==
    /\ pc \in {"dashboard", "predicted"} =>
          /\ GamesPlayedRight(home_stats, sel.home)
          /\ GamesPlayedRight(away_stats, sel.away)
    /\ pc = "rankings" =>
          \A t \in DOMAIN team_stats : GamesPlayedRight(team_stats[t], t)

\* three plays of the home team in two games
C17_Witness ==
    /\ pc = "dashboard"
    /\ home_stats # None
    /\ home_stats.total_plays = 3
    /\ home_stats.games_played = 2

\* ---------------------------------------------------- claims C18 - C19
\* a step that is a loader call
CallStep ==
    /\ loaded' # None
    /\ <<loaded, cached_data, cache_timestamp>>' # <<loaded, cached_data, cache_timestamp>>

\* the season files a call looks at
YearsOfCall(key) ==
    IF key[1] = "rolling_data" THEN key[2] - 3 .. key[2] ELSE {key[2]}

Unloadable(year) == ~data_dir \/ data_files[year] \in {"missing", "unreadable"}

C18_Call ==
    CallStep =>
        LET c == loaded'
        IN  /\ ~c.raised
            /\ ~c.from_cache =>
                  /\ ~data_dir => c.result = EmptyTable
                  /\ (\A y \in YearsOfCall(c.key) : Unloadable(y)) => c.result = EmptyTable
                  /\ c.error => c.result = EmptyTable
                  /\ c.result # EmptyTable =>
                        \E y \in c.years_read :
                            /\ ~Unloadable(y)
                            /\ \E i \in 1 .. Len(c.result) : c.result[i] = y

\* C18: load_rolling_data and load_full_season_pbp never propagate a failure:
\* a call that goes to the files returns an empty table when the data
\* directory is missing, when none of its season files exists and can be read
\* (for load_full_season_pbp: its one file), or on an unexpected error; a
\* non-empty table comes from at least one season file that was read.
C18_NeverPropagates == [][C18_Call]_vars

\* an unexpected error after files were read, and an unreadable single file
C18_Witness ==
    /\ loaded # None
    /\ ~loaded.from_cache
    /\ loaded.result = EmptyTable
    /\ loaded.years_read # {}
    /\ \/ loaded.error
       \/ loaded.key[1] = "season_data" /\ data_files[loaded.key[2]] = "unreadable"

\* the call finds what it needs in the files
SucceedsOnFiles(key, error) ==
    IF key[1] = "rolling_data"
    THEN data_dir /\ ~error /\ \E y \in YearsOfCall(key) : data_files[y] = "rows"
    ELSE data_dir /\ data_files[key[2]] \in {"empty", "rows"}

C19_Call ==
    CallStep =>
        LET c == loaded'
            key == c.key
            stored == key \in DOMAIN cached_data /\ key \in DOMAIN cache_timestamp
            fresh == stored /\ now - cache_timestamp[key] < 300
        IN  /\ c.from_cache <=> fresh
            /\ fresh =>
                  /\ c.result = cached_data[key]
                  /\ c.years_read = {}
                  /\ UNCHANGED <<cached_data, cache_timestamp>>
            /\ ~fresh =>
                  /\ c.years_read = {y \in YearsOfCall(key) : data_dir /\ data_files[y] # "missing"}
                  /\ SucceedsOnFiles(key, c.error) =>
                        /\ key \in DOMAIN cached_data' /\ cached_data'[key] = c.result
                        /\ key \in DOMAIN cache_timestamp' /\ cache_timestamp'[key] = now
                  /\ ~SucceedsOnFiles(key, c.error) =>
                        /\ c.result = EmptyTable
                        /\ UNCHANGED <<cached_data, cache_timestamp>>
            /\ \A k \in DOMAIN cached_data \ {key} :
                  /\ k \in DOMAIN cached_data' /\ cached_data'[k] = cached_data[k]
                  /\ cache_timestamp'[k] = cache_timestamp[k]

\* C19: a loader call returns the cached table without reading files exactly
\* when an entry for its key was stored less than 300 seconds before;
\* otherwise it goes to the files again and, on success, replaces the entry
\* and its timestamp, so that an entry of 300 seconds or more is never served.
C19_CacheExpiry == [][C19_Call]_vars

\* an entry exactly 300 seconds old was not served but replaced
C19_Witness ==
    /\ loaded # None
    /\ loaded.entry_age = 300
    /\ ~loaded.from_cache
    /\ loaded.store
    /\ cache_timestamp[loaded.key] = loaded.at

\* ------------------------------------------------ line movement (SpecLine)
\* spreads a schedule or an early-lines file may hold for the game
LineSpreads == {-3, -1}

\* the line of the week's other game, the same in every file that has it
OtherSpread == -1

\* a parquet file as seen for the selected game: missing, unreadable, without
\* the game, or with the game's line; other says whether the file has a row
\* for the week's other game
LineFiles ==
    {[state |-> "missing"], [state |-> "unreadable"]}
    \cup {[state |-> "no_game", other |-> o] : o \in BOOLEAN}
    \cup {[state |-> "game", spread_line |-> x, total_line |-> 44, other |-> o] :
            x \in LineSpreads, o \in BOOLEAN}

\* nfl.import_schedules([year]): fails, or a schedule without or with the game
FreshSchedules ==
    {[state |-> "error"]}
    \cup {[state |-> "no_game", other |-> o] : o \in BOOLEAN}
    \cup {[state |-> "game", spread_line |-> x, total_line |-> 44, other |-> o] :
            x \in LineSpreads, o \in BOOLEAN}

\* an exception leaving the function
Raised(exception) == [raised |-> exception]

NotFound(reason) == [found |-> FALSE, reason |-> reason]

\* line_movement_analyzer.load_captured_line_movement
load_captured_line_movement(early_lines, current_schedule) ==
    IF early_lines.state = "missing" THEN NotFound("No early lines saved")
    ELSE IF early_lines.state = "unreadable"
    THEN NotFound("Error loading captured line movement")
    ELSE IF current_schedule.state = "missing"
    THEN NotFound("Current schedule data not available")
    ELSE IF current_schedule.state = "unreadable"
    THEN NotFound("Error loading captured line movement")
    ELSE IF early_lines.state # "game"
    THEN NotFound("Game not found in captured early lines")
    ELSE IF current_schedule.state # "game"
    THEN NotFound("Game not found in current schedule")
    ELSE [found |-> TRUE,
          early_spread |-> early_lines.spread_line,
          current_spread |-> current_schedule.spread_line,
          spread_movement |-> current_schedule.spread_line - early_lines.spread_line,
          early_total |-> early_lines.total_line,
          current_total |-> current_schedule.total_line,
          total_movement |-> current_schedule.total_line - early_lines.total_line,
          data_source |-> "captured_lines",
          movement_type |-> "early_vs_current"]

\* the rows of games that two tables of lines have in common, opening line
\* from the first and current line from the second
MovementRows(opening, current) ==
    (IF opening.state = "game" /\ current.state = "game"
     THEN {[game |-> "selected",
            early_spread |-> opening.spread_line,
            current_spread |-> current.spread_line,
            spread_movement |-> current.spread_line - opening.spread_line,
            early_total |-> opening.total_line,
            current_total |-> current.total_line,
            total_movement |-> current.total_line - opening.total_line]}
     ELSE {})
    \cup (IF opening.other /\ current.other
          THEN {[game |-> "other",
                 early_spread |-> OtherSpread, current_spread |-> OtherSpread,
                 spread_movement |-> 0,
                 early_total |-> 44, current_total |-> 44, total_movement |-> 0]}
          ELSE {})

\* line_movement_analyzer.load_historical_line_movement: movement_data has a
\* row for each game of the early lines that the current week's schedule has;
\* without any such game it is a table without rows and without columns
load_historical_line_movement(early_lines, current_schedule) ==
    IF early_lines.state = "missing" THEN NotFound("No early lines saved")
    ELSE IF early_lines.state = "unreadable"
    THEN NotFound("Error loading line movement data")
    ELSE IF current_schedule.state = "missing"
    THEN NotFound("Current schedule data not available")
    ELSE IF current_schedule.state = "unreadable"
    THEN NotFound("Error loading line movement data")
    ELSE [found |-> TRUE,
          movement_data |-> MovementRows(early_lines, current_schedule),
          total_games |-> Cardinality(MovementRows(early_lines, current_schedule))]

\* the statistics both week analyses compute from a table of movements
WeekStatistics(rows) ==
    [found |-> TRUE,
     total_games |-> Cardinality(rows),
     significant_spread_moves |-> Cardinality({r \in rows : Abs(r.spread_movement) >= 1}),
     significant_total_moves |-> Cardinality({r \in rows : Abs(r.total_movement) >= 2}),
     games_moving_toward_home |-> Cardinality({r \in rows : r.spread_movement < 0}),
     games_moving_toward_away |-> Cardinality({r \in rows : r.spread_movement > 0})]

\* live_line_movement.analyze_live_week_movement
analyze_live_week_movement(local_schedule, fresh_schedule) ==
    IF local_schedule.state \in {"missing", "unreadable"}
    THEN NotFound("Error analyzing week movement")
    ELSE IF fresh_schedule.state = "error"
    THEN NotFound("Error analyzing week movement")
    ELSE IF MovementRows(local_schedule, fresh_schedule) = {}
    THEN NotFound("No movement data available")
    ELSE WeekStatistics(MovementRows(local_schedule, fresh_schedule))

\* line_movement_analyzer.analyze_week_line_movement: the captured data, then
\* the live comparison; the statistics index the movement table's columns
analyze_week_line_movement(early_lines, current_schedule, fresh_schedule, live_import) ==
    LET movement_data == load_historical_line_movement(early_lines, current_schedule)
        live_analysis == analyze_live_week_movement(current_schedule, fresh_schedule)
    IN  IF movement_data.found
        THEN IF movement_data.movement_data = {}
             THEN Raised("KeyError")
             ELSE WeekStatistics(movement_data.movement_data)
        ELSE IF live_import /\ live_analysis.found
        THEN [found |-> TRUE,
              total_games |-> live_analysis.total_games,
              significant_spread_moves |-> live_analysis.significant_spread_moves,
              significant_total_moves |-> live_analysis.significant_total_moves,
              games_moving_toward_home |-> live_analysis.games_moving_toward_home,
              games_moving_toward_away |-> live_analysis.games_moving_toward_away,
              data_source |-> "live_tracking"]
        ELSE NotFound("No line movement analysis available")

\* live_line_movement.get_live_line_movement: local schedule against fresh one
get_live_line_movement(local_schedule, fresh_schedule) ==
    IF local_schedule.state = "missing" THEN NotFound("Local schedule data not available")
    ELSE IF local_schedule.state = "unreadable" THEN NotFound("Error in live line tracking")
    ELSE IF local_schedule.state # "game" THEN NotFound("Game not found in local data")
    ELSE IF fresh_schedule.state = "error" THEN NotFound("Error in live line tracking")
    ELSE IF fresh_schedule.state # "game" THEN NotFound("Game not found in live data")
    ELSE [found |-> TRUE,
          opening_spread |-> local_schedule.spread_line,
          current_spread |-> fresh_schedule.spread_line,
          spread_movement |-> fresh_schedule.spread_line - local_schedule.spread_line,
          opening_total |-> local_schedule.total_line,
          current_total |-> fresh_schedule.total_line,
          total_movement |-> fresh_schedule.total_line - local_schedule.total_line,
          data_source |-> "live_comparison",
          movement_type |-> "live_tracking"]

\* a live result in the standard format
StandardFormat(live_movement) ==
    [found |-> TRUE,
     early_spread |-> live_movement.opening_spread,
     current_spread |-> live_movement.current_spread,
     spread_movement |-> live_movement.spread_movement,
     early_total |-> live_movement.opening_total,
     current_total |-> live_movement.current_total,
     total_movement |-> live_movement.total_movement,
     data_source |-> "live_tracking"]

\* the first definition of get_game_line_movement in line_movement_analyzer:
\* captured lines, then the live comparison
get_game_line_movement_first(early_lines, current_schedule, fresh_schedule, live_import) ==
    LET captured_movement == load_captured_line_movement(early_lines, current_schedule)
        live_movement == get_live_line_movement(current_schedule, fresh_schedule)
    IN  IF captured_movement.found THEN captured_movement
        ELSE IF ~live_import THEN NotFound("Live tracking import failed")
        ELSE IF live_movement.found
        THEN [found |-> TRUE,
              early_spread |-> live_movement.opening_spread,
              current_spread |-> live_movement.current_spread,
              spread_movement |-> live_movement.spread_movement,
              early_total |-> live_movement.opening_total,
              current_total |-> live_movement.current_total,
              total_movement |-> live_movement.total_movement,
              data_source |-> "live_tracking",
              movement_type |-> "live_comparison"]
        ELSE NotFound("Live tracking failed")

\* the second definition of get_game_line_movement in the same module: the
\* name is bound to it once the module is imported, so it is the one called
get_game_line_movement(early_lines, current_schedule, fresh_schedule, live_import) ==
    LET movement_data == load_historical_line_movement(early_lines, current_schedule)
        game_movement == {r \in movement_data.movement_data : r.game = "selected"}
        game_data == CHOOSE r \in game_movement : TRUE
    IN  IF ~movement_data.found THEN movement_data
        ELSE IF movement_data.movement_data = {} THEN Raised("KeyError")
        ELSE IF game_movement = {} THEN NotFound("Game not found in movement data")
        ELSE [found |-> TRUE,
              early_spread |-> game_data.early_spread,
              current_spread |-> game_data.current_spread,
              spread_movement |-> game_data.spread_movement,
              early_total |-> game_data.early_total,
              current_total |-> game_data.current_total,
              total_movement |-> game_data.total_movement]

\* app_streamlit.get_app_line_movement: captured lines, then live tracking;
\* captured_import and live_import say whether the two imports succeed
get_app_line_movement_livefirst(early_lines, current_schedule, fresh_schedule, captured_import, live_import) ==
    LET captured == IF captured_import
                    THEN load_captured_line_movement(early_lines, current_schedule)
                    ELSE NotFound("import failed")
        live_result == IF live_import
                       THEN get_live_line_movement(current_schedule, fresh_schedule)
                       ELSE NotFound("Live tracking not available")
    IN  IF live_result.found THEN StandardFormat(live_result)
        ELSE IF captured.found THEN captured
        ELSE NotFound("No line movement data available")

get_app_line_movement(early_lines, current_schedule, fresh_schedule, captured_import, live_import) ==
    LET captured == IF captured_import
                    THEN load_captured_line_movement(early_lines, current_schedule)
                    ELSE NotFound("import failed")
        live_result == IF live_import
                       THEN get_live_line_movement(current_schedule, fresh_schedule)
                       ELSE NotFound("Live tracking not available")
    IN  IF captured.found THEN captured
        ELSE IF live_result.found THEN StandardFormat(live_result)
        ELSE NotFound("No line movement data available")

\* the lookups get_app_line_movement performs, in order
AppLookups(early_lines, current_schedule, captured_import, live_import) ==
    LET captured == IF captured_import
                    THEN load_captured_line_movement(early_lines, current_schedule)
                    ELSE NotFound("import failed")
    IN  (IF captured_import THEN <<"load_captured_line_movement">> ELSE <<>>)
        \o (IF ~captured.found /\ live_import THEN <<"get_live_line_movement">> ELSE <<>>)

\* the Line Movement Tracking section of the game analysis
AppLineMovement(g, early_lines, current_schedule, fresh_schedule, captured_import, live_import) ==
    /\ movement = None
    /\ movement' = [caller |-> "get_app_line_movement", home |-> g[1], away |-> g[2],
                    early_lines |-> early_lines, current_schedule |-> current_schedule,
                    fresh_schedule |-> fresh_schedule,
                    captured_import |-> captured_import, live_import |-> live_import,
                    lookups |-> AppLookups(early_lines, current_schedule,
                                           captured_import, live_import),
                    result |-> get_app_line_movement(early_lines, current_schedule,
                                                     fresh_schedule, captured_import,
                                                     live_import)]
    /\ UNCHANGED <<pbp_data, pc, sel, home_stats, away_stats, matchup, team_stats,
                   pred, std, view, model_pbp, blend, callVars, loaderVars, sessionVars>>

\* the opening line shown next to the Vegas line in the Model Analysis
OpeningLineLookup(g, early_lines, current_schedule, fresh_schedule, live_import) ==
    /\ movement = None
    /\ movement' = [caller |-> "get_game_line_movement", home |-> g[1], away |-> g[2],
                    early_lines |-> early_lines, current_schedule |-> current_schedule,
                    fresh_schedule |-> fresh_schedule, live_import |-> live_import,
                    result |-> get_game_line_movement(early_lines, current_schedule,
                                                      fresh_schedule, live_import)]
    /\ UNCHANGED <<pbp_data, pc, sel, home_stats, away_stats, matchup, team_stats,
                   pred, std, view, model_pbp, blend, callVars, loaderVars, sessionVars>>

\* the week's analysis of line movement
AnalyzeWeekLineMovement(g, early_lines, current_schedule, fresh_schedule, live_import) ==
    /\ movement = None
    /\ movement' = [caller |-> "analyze_week_line_movement", home |-> g[1], away |-> g[2],
                    early_lines |-> early_lines, current_schedule |-> current_schedule,
                    fresh_schedule |-> fresh_schedule, live_import |-> live_import,
                    result |-> analyze_week_line_movement(early_lines, current_schedule,
                                                          fresh_schedule, live_import)]
    /\ UNCHANGED <<pbp_data, pc, sel, home_stats, away_stats, matchup, team_stats,
                   pred, std, view, model_pbp, blend, callVars, loaderVars, sessionVars>>

\* the script run ends; the lookup's result was one of its locals
EndLineRun ==
    /\ movement # None
    /\ movement' = None
    /\ UNCHANGED <<pbp_data, pc, sel, home_stats, away_stats, matchup, team_stats,
                   pred, std, view, model_pbp, blend, callVars, loaderVars, sessionVars>>

NextLine ==
    \/ \E g \in Games, e \in LineFiles, s \in LineFiles, f \in FreshSchedules,
          c \in BOOLEAN, i \in BOOLEAN : AppLineMovement(g, e, s, f, c, i)
    \/ \E g \in Games, e \in LineFiles, s \in LineFiles, f \in FreshSchedules, i \in BOOLEAN :
          OpeningLineLookup(g, e, s, f, i)
    \/ \E g \in Games, e \in LineFiles, s \in LineFiles, f \in FreshSchedules, i \in BOOLEAN :
          AnalyzeWeekLineMovement(g, e, s, f, i)
    \/ EndLineRun

SpecLine == InitAgg /\ [][NextLine]_vars

\* ------------------------------------------------------------ claim C20
\* what the two methods find for the lookup's files
CapturedOf(m) == load_captured_line_movement(m.early_lines, m.current_schedule)

LiveOf(m) ==
    IF m.live_import THEN get_live_line_movement(m.current_schedule, m.fresh_schedule)
    ELSE NotFound("Live tracking not available")

\* C20: get_game_line_movement tries the captured early lines first and
\* returns them if found; otherwise it falls back to the live comparison and,
\* when that finds the game, returns it in the standard format with
\* data_source 'live_tracking'.
C20_CapturedThenLive ==
    (movement # None /\ movement.caller = "get_game_line_movement") =>
        /\ CapturedOf(movement).found => movement.result = CapturedOf(movement)
        /\ (~CapturedOf(movement).found /\ LiveOf(movement).found) =>
              /\ "found" \in DOMAIN movement.result
              /\ movement.result.found
              /\ movement.result.data_source = "live_tracking"
              /\ movement.result.early_spread = LiveOf(movement).opening_spread
              /\ movement.result.current_spread = LiveOf(movement).current_spread

\* ----------------------------------- the session's play tables (SpecSession)
\* the years and weeks the sidebar selects
SessionYears == {2024, 2025}

SessionWeeks == {1}

\* st.session_state keys: 'pbp_data', and f"rankings_data_{year}_{week}"
PbpKey == <<"pbp_data">>

RankingsKey(year, week) == <<"rankings_data", year, week>>

\* a session entry holds the stored table; loaded_for remembers the year
\* whose load_rolling_data call produced it
SessionEntry(table, year) == [table |-> table, loaded_for |-> year]

\* Game Analysis, Recent Team Performance: the play table of the run, from the
\* session if it has one, else from load_rolling_data(CURRENT_YEAR); an empty
\* load stops the run; get_team_recent_stats then works on that table
GameAnalysisData(year, fails) ==
    LET call == load_rolling_data(year, fails)
    IN  IF PbpKey \notin DOMAIN session_state
        THEN /\ cached_data' = IF call.store THEN (call.key :> call.result) @@ cached_data
                               ELSE cached_data
             /\ cache_timestamp' = IF call.store THEN (call.key :> now) @@ cache_timestamp
                                   ELSE cache_timestamp
             /\ session_state' = IF call.result # EmptyTable
                                 THEN (PbpKey :> SessionEntry(call.result, year))
                                      @@ session_state
                                 ELSE session_state
             /\ analysis' = [tab |-> "game_analysis", year |-> year, week |-> 0,
                             from_session |-> FALSE,
                             from_cache |-> call.from_cache,
                             stopped |-> call.result = EmptyTable,
                             table |-> call.result, loaded_for |-> year]
             /\ UNCHANGED <<pbp_data, pc, sel, home_stats, away_stats, matchup,
                            team_stats, pred, std, view, model_pbp, blend, callVars,
                            data_dir, data_files, now, loaded, movement>>
        ELSE /\ analysis' = [tab |-> "game_analysis", year |-> year, week |-> 0,
                             from_session |-> TRUE, from_cache |-> FALSE,
                             stopped |-> FALSE,
                             table |-> session_state[PbpKey].table,
                             loaded_for |-> session_state[PbpKey].loaded_for]
             /\ UNCHANGED <<pbp_data, pc, sel, home_stats, away_stats, matchup,
                            team_stats, pred, std, view, model_pbp, blend, callVars,
                            loaderVars, movement, session_state>>

\* Power Rankings: the play table of the run, kept in the session per year and
\* week; get_all_team_stats then works on that table
PowerRankingsData(year, week, fails) ==
    LET call == load_rolling_data(year, fails)
        cache_key == RankingsKey(year, week)
    IN  IF cache_key \notin DOMAIN session_state
        THEN /\ cached_data' = IF call.store THEN (call.key :> call.result) @@ cached_data
                               ELSE cached_data
             /\ cache_timestamp' = IF call.store THEN (call.key :> now) @@ cache_timestamp
                                   ELSE cache_timestamp
             /\ session_state' = IF call.result # EmptyTable
                                 THEN (cache_key :> SessionEntry(call.result, year))
                                      @@ session_state
                                 ELSE session_state
             /\ analysis' = [tab |-> "power_rankings", year |-> year, week |-> week,
                             from_session |-> FALSE,
                             from_cache |-> call.from_cache,
                             stopped |-> call.result = EmptyTable,
                             table |-> call.result, loaded_for |-> year]
             /\ UNCHANGED <<pbp_data, pc, sel, home_stats, away_stats, matchup,
                            team_stats, pred, std, view, model_pbp, blend, callVars,
                            data_dir, data_files, now, loaded, movement>>
        ELSE /\ analysis' = [tab |-> "power_rankings", year |-> year, week |-> week,
                             from_session |-> TRUE, from_cache |-> FALSE,
                             stopped |-> FALSE,
                             table |-> session_state[cache_key].table,
                             loaded_for |-> session_state[cache_key].loaded_for]
             /\ UNCHANGED <<pbp_data, pc, sel, home_stats, away_stats, matchup,
                            team_stats, pred, std, view, model_pbp, blend, callVars,
                            loaderVars, movement, session_state>>

\* the browser opens a new session
NewSession ==
    /\ session_state # <<>>
    /\ session_state' = <<>>
    /\ analysis' = None
    /\ UNCHANGED <<pbp_data, pc, sel, home_stats, away_stats, matchup, team_stats,
                   pred, std, view, model_pbp, blend, callVars, loaderVars, movement>>

\* what a data file becomes while sessions are open
SessionFileStates == {"empty", "rows"}

NextSession ==
    \/ \E y \in SessionYears, fails \in BOOLEAN : GameAnalysisData(y, fails)
    \/ \E y \in SessionYears, w \in SessionWeeks, fails \in BOOLEAN :
          PowerRankingsData(y, w, fails)
    \/ NewSession
    \/ Tick
    \/ \E y \in FileYears, s \in SessionFileStates : SetFile(y, s)
    \/ Restart

SpecSession == InitAgg /\ [][NextSession]_vars

\* ----------------------------------------------------- claims C21 - C30
\* the simple model was asked for and holds a play table
Validated ==
    /\ pc \in {"simple", "standard", "displayed"}
    /\ sel.show_simple_model
    /\ "available_teams" \in DOMAIN pred

TeamNotFound(team) ==
    /\ pred.status = "team_not_found"
    /\ pred.team = team
    /\ ~pred.show_simple_model
    /\ pred.calls = <<>>
    /\ pred.simple_model_spread = None
    /\ pred.simple_model_total = None

\* C21: predict_spread is invoked only after both team codes are found in the
\* model's play table. If the home code is absent (it is checked first) the
\* run reports "team not found" naming the home team, otherwise if the away
\* code is absent it names the away team; in both cases the simple model is
\* disabled for the matchup and neither predict_spread nor predict_total is
\* called. A failure of predict_spread for two known teams is reported as a
\* different error, "prediction failed".
C21_TeamValidationFirst ==
    Validated =>
        /\ sel.home \notin pred.available_teams => TeamNotFound(sel.home)
        /\ (sel.home \in pred.available_teams /\ sel.away \notin pred.available_teams)
               => TeamNotFound(sel.away)
        /\ pred.calls # <<>> => {sel.home, sel.away} \subseteq pred.available_teams
        /\ pred.status = "prediction_failed" =>
              /\ {sel.home, sel.away} \subseteq pred.available_teams
              /\ pred.calls = <<"predict_spread">>
        /\ pred.status = "team_not_found" =>
              ~({sel.home, sel.away} \subseteq pred.available_teams)

\* both codes are absent from the table and the home team is the one named
C21_Witness ==
    /\ Validated
    /\ sel.home \notin pred.available_teams
    /\ sel.away \notin pred.available_teams
    /\ pred.available_teams # {}
    /\ pred.status = "team_not_found"
    /\ pred.team = sel.home

\* the files hold what the captured method needs: the game in the early lines
\* and in the current schedule
CapturedFinds(m) ==
    /\ m.captured_import
    /\ m.early_lines.state = "game"
    /\ m.current_schedule.state = "game"

\* the files hold what the live method needs: the game in the local schedule
\* and in the freshly imported one
LiveFinds(m) ==
    /\ m.live_import
    /\ m.current_schedule.state = "game"
    /\ m.fresh_schedule.state = "game"

\* C22: get_app_line_movement tries the captured lines first and live
\* tracking second. A found captured result is returned as it is (early line
\* from the early-lines file, current line from the local schedule, source
\* captured_lines) and the live lookup is not performed. If the captured
\* lookup finds nothing or cannot be imported, a found live result is
\* returned in early_/current_ fields with data_source live_tracking. If
\* neither finds the game the result is found = False with a reason; a
\* failing live import or lookup gives found = False, never an exception.
C22_AppCapturedThenLive ==
    (movement # None /\ movement.caller = "get_app_line_movement") =>
        LET m == movement
            r == movement.result
        IN  /\ r.found \in BOOLEAN
            /\ CapturedFinds(m) =>
                  /\ r = load_captured_line_movement(m.early_lines, m.current_schedule)
                  /\ r.found
                  /\ r.data_source = "captured_lines"
                  /\ r.early_spread = m.early_lines.spread_line
                  /\ r.current_spread = m.current_schedule.spread_line
                  /\ m.lookups = <<"load_captured_line_movement">>
            /\ (~CapturedFinds(m) /\ LiveFinds(m)) =>
                  /\ r.found
                  /\ r.data_source = "live_tracking"
                  /\ r.early_spread = m.current_schedule.spread_line
                  /\ r.current_spread = m.fresh_schedule.spread_line
                  /\ r.spread_movement = r.current_spread - r.early_spread
                  /\ r.early_total = m.current_schedule.total_line
                  /\ r.current_total = m.fresh_schedule.total_line
                  /\ m.lookups[Len(m.lookups)] = "get_live_line_movement"
            /\ (~CapturedFinds(m) /\ ~LiveFinds(m)) =>
                  /\ ~r.found
                  /\ "reason" \in DOMAIN r

\* the captured lines and the live comparison both have the game, with
\* different opening lines, and the captured result is the one returned
C22_Witness ==
    /\ movement # None
    /\ movement.caller = "get_app_line_movement"
    /\ CapturedFinds(movement)
    /\ LiveFinds(movement)
    /\ movement.early_lines.spread_line # movement.current_schedule.spread_line
    /\ movement.result.data_source = "captured_lines"

\* a lookup's result as its callers expect it: a boolean found, and a reason
\* when nothing was found
WellFormed(r) ==
    /\ "found" \in DOMAIN r
    /\ r.found \in BOOLEAN
    /\ ~r.found => "reason" \in DOMAIN r

\* C23: every line-movement lookup (load_captured_line_movement,
\* load_historical_line_movement, get_live_line_movement,
\* get_game_line_movement, analyze_week_line_movement) returns, for every
\* input and every state of the files, a result with a boolean found, and a
\* result with found = False carries a reason; no lookup raises, also when the
\* early-lines file exists but none of its games is in the current week's
\* schedule, so that the movement table is empty.
C23_LookupsAlwaysAnswer ==
    movement # None =>
        /\ WellFormed(load_captured_line_movement(movement.early_lines,
                                                  movement.current_schedule))
        /\ WellFormed(load_historical_line_movement(movement.early_lines,
                                                    movement.current_schedule))
        /\ WellFormed(get_live_line_movement(movement.current_schedule,
                                             movement.fresh_schedule))
        /\ movement.caller \in {"get_game_line_movement", "analyze_week_line_movement"}
              => WellFormed(movement.result)

\* C24: the spread edge used in the Betting Value Assessment and the Overall
\* Assessment equals the edge shown in the Predictions tab for the same
\* matchup, home Vegas spread minus model home spread, for every model spread
\* including a pick'em prediction of exactly 0; the standard-model edge and
\* the total edge used there equal the differences shown in the Predictions
\* tab whenever the corresponding prediction exists.
C24_SameEdgeInBothPlaces ==
    Shown =>
        /\ view.bv_simple_edge = view.simple_edge
        /\ view.bv_simple_edge = RatSub(sel.home_spread_vegas, pred.simple_model_spread)
        /\ (sel.show_standard_model /\ std.model_home_spread # None) =>
              /\ view.bv_standard_edge = view.standard_edge
              /\ view.bv_standard_edge =
                     RatSub(sel.home_spread_vegas, std.model_home_spread)
        /\ pred.simple_model_total # None =>
              view.bv_total_edge = view.total_edge

\* C25: across any sequence of UI reruns the play table used for the Game
\* Analysis team snapshots belongs to the currently selected year: after the
\* Year setting changes, get_team_recent_stats works on data loaded for the
\* new year, not on the table an earlier run stored in the session under
\* 'pbp_data'; the Power Rankings table, kept per year and week, likewise
\* belongs to the selected year.
C25_TableOfSelectedYear ==
    (analysis # None /\ ~analysis.stopped) => analysis.loaded_for = analysis.year

\* every table load_rolling_data wrote to the cache has rows and a timestamp,
\* and every table in the session has rows
C26_NoEmptyEntry ==
    /\ \A k \in DOMAIN cached_data :
          k[1] = "rolling_data" =>
              /\ cached_data[k] # EmptyTable
              /\ k \in DOMAIN cache_timestamp
    /\ \A k \in DOMAIN session_state : session_state[k].table # EmptyTable

\* a run that loads and gets no rows, because the load failed or found none
LoadsNothing ==
    /\ analysis' # analysis
    /\ analysis' # None
    /\ ~analysis'.from_session
    /\ analysis'.stopped

\* a load that fails or comes back empty writes nothing
C26_FailedLoad ==
    LoadsNothing =>
        /\ cached_data' = cached_data
        /\ cache_timestamp' = cache_timestamp
        /\ session_state' = session_state

\* C26: no cache ever holds an empty table. After any sequence of loads every
\* entry of the loader's _cached_data written by load_rolling_data is
\* non-empty and has a timestamp in _cache_timestamp; a failed or empty load
\* leaves both dictionaries unchanged; the app stores a play table in the
\* session state only if it is non-empty.
C26_NoEmptyTableCached == [](C26_NoEmptyEntry) /\ [][C26_FailedLoad]_vars

\* an expired cache entry survives a reload that found no rows, and the
\* session still holds the table of an earlier run
C26_Witness ==
    /\ analysis # None
    /\ analysis.stopped
    /\ ~analysis.from_cache
    /\ <<"rolling_data", analysis.year>> \in DOMAIN cached_data
    /\ now - cache_timestamp[<<"rolling_data", analysis.year>>] >= CacheSeconds
    /\ session_state # <<>>

\* the Betting Odds banner of the run is on the screen
OddsShown == pc \in {"odds", "simple", "standard", "displayed"}

\* C27: in the displayed Vegas line the away spread is the exact negation of
\* the home spread, and the sign of the home spread follows the home
\* moneyline: a negative moneyline gives home spread = -|spread_line|, a
\* positive one +|spread_line|, and a moneyline of zero leaves the raw
\* spread_line as the home spread.
C27_VegasLineSigns ==
    OddsShown =>
        /\ sel.away_spread_vegas.num = -sel.home_spread_vegas.num
        /\ sel.away_spread_vegas.den = sel.home_spread_vegas.den
        /\ sel.home_spread_vegas.den = sel.spread_line.den
        /\ sel.home_moneyline < 0 => sel.home_spread_vegas.num = -Abs(sel.spread_line.num)
        /\ sel.home_moneyline > 0 => sel.home_spread_vegas.num = Abs(sel.spread_line.num)
        /\ sel.home_moneyline = 0 => sel.home_spread_vegas = sel.spread_line

\* the schedule's spread_line is negative, the home moneyline positive, and
\* the home spread is shown positive
C27_Witness ==
    /\ OddsShown
    /\ sel.spread_line.num < 0
    /\ sel.home_moneyline > 0
    /\ sel.home_spread_vegas.num > 0
    /\ sel.away_spread_vegas.num < 0

\* how many rows of the blend come from the given input positions
RowsFrom(positions) ==
    Cardinality({k \in 1 .. Len(blend.rows) : blend.rows[k] \in positions})

\* C28: for 0 < weight < 1 with both subsets non-empty the blended table has
\* exactly target_current_plays current-season rows and
\* target_historical_plays historical rows; its size is |historical| or
\* |historical| - 1, never more; its historical rows are distinct rows of the
\* input; and target_historical_plays never exceeds |historical|, so the
\* branch that uses all of the historical rows is never taken.
C28_BlendSize ==
    (Sampling /\ blend.weight \in 1 .. 9) =>
        LET historical == PositionsOf(HistoricalSeasons)
            current == PositionsOf({2025})
            n == Cardinality(historical)
        IN  /\ historical # {} /\ current # {}
            /\ RowsFrom(current) = blend.target_current_plays
            /\ RowsFrom(historical) = blend.target_historical_plays
            /\ Len(blend.rows) = blend.target_current_plays + blend.target_historical_plays
            /\ Len(blend.rows) \in {n, n - 1}
            /\ \A i \in historical : Occurrences(blend.rows, i) <= 1
            /\ \A k \in 1 .. Len(blend.rows) : blend.rows[k] \in historical \cup current
            /\ ~(blend.target_historical_plays > n)

\* a blend one row short of the historical table, with rows of both eras and
\* the current season replicated
C28_Witness ==
    /\ Sampling
    /\ blend.weight \in 1 .. 9
    /\ Len(blend.rows) = Cardinality(PositionsOf(HistoricalSeasons)) - 1
    /\ blend.target_historical_plays >= 2
    /\ blend.target_current_plays > Cardinality(PositionsOf({2025}))

\* the season weighting step of the run has been taken
Weighted == pc = "weighted"

\* C29: the season blend is applied to the simple model's play table if and
\* only if season trends are enabled and the requested weight differs from
\* 0.5. At the default weight 0.5, and whenever trends are disabled, the model
\* predicts from the original table, every row once and in order, and no
\* achieved-weight readout is produced: a requested 50% current-season weight
\* is not realized by resampling. When the blend is applied the readout is
\* the share of 2025 rows in the blended table.
C29_BlendAppliedIffNotHalf ==
    Weighted =>
        /\ blend.applied <=> (blend.show_season_trends /\ blend.weight # 5)
        /\ ~blend.show_season_trends => blend.weight = 0
        /\ ~blend.applied =>
              /\ blend.rows = [i \in 1 .. Len(model_pbp) |-> i]
              /\ "actual_weight" \notin DOMAIN blend
        /\ blend.applied =>
              /\ "actual_weight" \in DOMAIN blend
              /\ blend.new_2025 = RowsFrom(PositionsOf({2025}))
              /\ blend.new_hist = RowsFrom(PositionsOf(HistoricalSeasons))
              /\ blend.new_2025 + blend.new_hist > 0 =>
                    blend.actual_weight.num * (blend.new_2025 + blend.new_hist)
                        = blend.new_2025 * blend.actual_weight.den

\* trends are on, 50% is requested, the table has one 2025 row among four,
\* and the model keeps the table as it is
C29_Witness ==
    /\ Weighted
    /\ blend.show_season_trends
    /\ blend.weight = 5
    /\ Cardinality(PositionsOf({2025})) = 1
    /\ Cardinality(PositionsOf(HistoricalSeasons)) = 3
    /\ Len(blend.rows) = 4
    /\ ~blend.applied

\* the fields in which the screen shows the standard model
StandardFields ==
    {"standard_edge", "standard_pick", "standard_icon", "standard_value",
     "bv_standard_edge"}

\* C30: a standard-model prediction is displayed only when the simple model
\* also produced a spread. In every run where the simple model is unchecked,
\* disabled by a missing team, or failed, the app shows 'No model predictions
\* available' and neither the standard model's spread nor its edge, even if
\* the standard model succeeded; a run that shows the standard model's edge
\* has a simple-model spread.
C30_StandardNeedsSimple ==
    pc = "displayed" =>
        /\ pred.status \in {"off", "team_not_found", "prediction_failed",
                            "load_failed", "no_data"} =>
              /\ ~view.shown
              /\ view.warning = "No model predictions available"
              /\ StandardFields \cap DOMAIN view = {}
        /\ view.shown =>
              /\ pred.status = "ok"
              /\ pred.show_simple_model
              /\ pred.simple_model_spread # None
        /\ ("standard_edge" \in DOMAIN view /\ view.standard_edge # None) =>
              /\ pred.simple_model_spread # None
              /\ sel.show_standard_model
              /\ std.model_home_spread # None
        /\ pred.status = "off" <=> ~sel.show_simple_model

\* the standard model succeeded for a matchup whose home team the simple
\* model does not know, and nothing of it is shown
C30_Witness ==
    /\ pc = "displayed"
    /\ sel.show_simple_model
    /\ sel.show_standard_model
    /\ pred.status = "team_not_found"
    /\ std.model_home_spread # None
    /\ ~std.failed
    /\ ~view.shown

====
